---- MODULE Spec2Model ----
(***************************************************************************)
(* A model of the filtered transformations of                              *)
(* src/libOpenImageIO/imagebufalgo_xform.cpp: warp, resize, fit, rotate    *)
(* and resample.  Real numbers are exact rationals <<n, d>> with d > 0 in  *)
(* lowest terms; images are small grids of integer pixel values.           *)
(***************************************************************************)
EXTENDS Integers, Sequences, FiniteSets, TLC

(***************************************************************************)
(* Bounds of the model.                                                    *)
(***************************************************************************)
GeomMaxOrigin == 1
GeomMaxSize == 2
GeomMaxShift == 1
TileW == 3
TileH == 2
ApiWorkers == 2

(***************************************************************************)
(* Exact rational arithmetic.                                              *)
(***************************************************************************)
IAbs(i) == IF i < 0 THEN -i ELSE i

RECURSIVE GCD(_, _)
GCD(a, b) == IF b = 0 THEN a ELSE GCD(b, a % b)

RNorm(n, d) ==
    LET sn == IF d < 0 THEN -n ELSE n
        sd == IAbs(d)
        g  == GCD(IAbs(sn), sd)
    IN  <<sn \div g, sd \div g>>

R(i) == <<i, 1>>
RZero == <<0, 1>>
ROne == <<1, 1>>
RHalf == <<1, 2>>
RAdd(a, b) == RNorm(a[1] * b[2] + b[1] * a[2], a[2] * b[2])
RSub(a, b) == RNorm(a[1] * b[2] - b[1] * a[2], a[2] * b[2])
RMul(a, b) == RNorm(a[1] * b[1], a[2] * b[2])
RDiv(a, b) == RNorm(a[1] * b[2], a[2] * b[1])
RNeg(a) == <<-a[1], a[2]>>
RLt(a, b) == a[1] * b[2] < b[1] * a[2]
RLe(a, b) == a[1] * b[2] <= b[1] * a[2]
RAbs(a) == <<IAbs(a[1]), a[2]>>
RMax(a, b) == IF RLt(a, b) THEN b ELSE a
RMin(a, b) == IF RLt(b, a) THEN b ELSE a
\* floorf and ceilf followed by the conversion to int
RFloor(a) == a[1] \div a[2]
RCeil(a) == -((-a[1]) \div a[2])
IMin(a, b) == IF a < b THEN a ELSE b
IMax(a, b) == IF a > b THEN a ELSE b
\* clamp(a, low, high) of OpenImageIO/fmath.h
IClamp(a, low, high) == IF a < low THEN low ELSE IF a > high THEN high ELSE a

(***************************************************************************)
(* ROI: half-open ranges [xbegin,xend) x [ybegin,yend) and a channel range.*)
(***************************************************************************)
ROI(xb, xe, yb, ye, cb, ce) ==
    [xbegin |-> xb, xend |-> xe, ybegin |-> yb, yend |-> ye,
     chbegin |-> cb, chend |-> ce]

\* The default-constructed ROI is the undefined sentinel (xbegin = INT_MIN).
UndefinedROI == [xbegin |-> -99, xend |-> 0, ybegin |-> 0, yend |-> 0,
                 chbegin |-> 0, chend |-> 0]
RoiDefined(roi) == roi.xbegin # -99
RoiWidth(roi) == roi.xend - roi.xbegin
RoiHeight(roi) == roi.yend - roi.ybegin
RoiPixels(roi) == (roi.xbegin .. roi.xend - 1) \X (roi.ybegin .. roi.yend - 1)
RoiContainsXY(outer, inner) ==
    /\ outer.xbegin <= inner.xbegin /\ inner.xend <= outer.xend
    /\ outer.ybegin <= inner.ybegin /\ inner.yend <= outer.yend

(***************************************************************************)
(* Imath::M33f with rational entries, row-vector convention:               *)
(* (x y 1) * M.                                                            *)
(***************************************************************************)
M33(a, b, c, d, e, f, g, h, i) == <<<<a, b, c>>, <<d, e, f>>, <<g, h, i>>>>
M33Identity == M33(ROne, RZero, RZero, RZero, ROne, RZero, RZero, RZero, ROne)

RSum3(a, b, c) == RAdd(RAdd(a, b), c)

M33Mul(A, B) ==
    [i \in 1..3 |-> [j \in 1..3 |->
        RSum3(RMul(A[i][1], B[1][j]), RMul(A[i][2], B[2][j]),
              RMul(A[i][3], B[3][j]))]]

M33Det(A) ==
    RSum3(RMul(A[1][1], RSub(RMul(A[2][2], A[3][3]), RMul(A[2][3], A[3][2]))),
          RNeg(RMul(A[1][2], RSub(RMul(A[2][1], A[3][3]), RMul(A[2][3], A[3][1])))),
          RMul(A[1][3], RSub(RMul(A[2][1], A[3][2]), RMul(A[2][2], A[3][1]))))

M33Cofactor(A, i, j) ==
    LET r1 == IF i = 1 THEN 2 ELSE 1
        r2 == IF i = 3 THEN 2 ELSE 3
        c1 == IF j = 1 THEN 2 ELSE 1
        c2 == IF j = 3 THEN 2 ELSE 3
        m  == RSub(RMul(A[r1][c1], A[r2][c2]), RMul(A[r1][c2], A[r2][c1]))
    IN  IF (i + j) % 2 = 0 THEN m ELSE RNeg(m)

\* Matrix33::inverse(): the identity when the matrix is singular
M33Inverse(A) ==
    LET det == M33Det(A)
    IN  IF det = RZero THEN M33Identity
        ELSE [i \in 1..3 |-> [j \in 1..3 |-> RDiv(M33Cofactor(A, j, i), det)]]

\* Matrix33::multVecMatrix(src, dst): the projective transform of a point
multVecMatrix(M, p) ==
    LET a == RSum3(RMul(p[1], M[1][1]), RMul(p[2], M[2][1]), M[3][1])
        b == RSum3(RMul(p[1], M[1][2]), RMul(p[2], M[2][2]), M[3][2])
        w == RSum3(RMul(p[1], M[1][3]), RMul(p[2], M[2][3]), M[3][3])
    IN  <<RDiv(a, w), RDiv(b, w)>>

M33Translate(tx, ty) ==
    M33(ROne, RZero, RZero, RZero, ROne, RZero, tx, ty, ROne)
M33Scale(sx, sy) ==
    M33(sx, RZero, RZero, RZero, sy, RZero, RZero, RZero, ROne)
\* rotation by k quarter turns: (cos, sin; -sin, cos)
M33Rot90(k) ==
    LET c == CASE k = 0 -> 1 [] k = 1 -> 0 [] k = 2 -> -1 [] OTHER -> 0
        s == CASE k = 0 -> 0 [] k = 1 -> 1 [] k = 2 -> 0 [] OTHER -> -1
    IN  M33(R(c), R(s), RZero, R(-s), R(c), RZero, RZero, RZero, ROne)

(***************************************************************************)
(* transform(): an ROI mapped through an affine matrix.                    *)
(***************************************************************************)
\* ul, ur, ll, lr: the centres of the four corner pixels
transformCorner(roi, k) ==
    CASE k = 1 -> <<RAdd(R(roi.xbegin), RHalf), RAdd(R(roi.ybegin), RHalf)>>
      [] k = 2 -> <<RSub(R(roi.xend), RHalf), RAdd(R(roi.ybegin), RHalf)>>
      [] k = 3 -> <<RAdd(R(roi.xbegin), RHalf), RSub(R(roi.yend), RHalf)>>
      [] OTHER -> <<RSub(R(roi.xend), RHalf), RSub(R(roi.yend), RHalf)>>

RMin4(a, b, c, d) == RMin(RMin(a, b), RMin(c, d))
RMax4(a, b, c, d) == RMax(RMax(a, b), RMax(c, d))

transform(M, roi) ==
    LET ul == multVecMatrix(M, transformCorner(roi, 1))
        ur == multVecMatrix(M, transformCorner(roi, 2))
        ll == multVecMatrix(M, transformCorner(roi, 3))
        lr == multVecMatrix(M, transformCorner(roi, 4))
        xmin == RFloor(RMin4(ul[1], ll[1], ur[1], lr[1]))
        ymin == RFloor(RMin4(ul[2], ll[2], ur[2], lr[2]))
        xmax == RFloor(RMax4(ul[1], ll[1], ur[1], lr[1])) + 1
        ymax == RFloor(RMax4(ul[2], ll[2], ur[2], lr[2])) + 1
    IN  ROI(xmin, xmax, ymin, ymax, roi.chbegin, roi.chend)

(***************************************************************************)
(* Sums of rationals over 1..n.                                            *)
(***************************************************************************)
RECURSIVE RSumRange(_, _, _)
RSumRange(f, lo, hi) ==
    IF lo > hi THEN RZero
    ELSE IF lo = hi THEN f[lo]
    ELSE LET mid == (lo + hi) \div 2
         IN  RAdd(RSumRange(f, lo, mid), RSumRange(f, mid + 1, hi))
RSumFn(f, n) == RSumRange(f, 1, n)

(***************************************************************************)
(* ImageBuf: a data window, a full (display) window, channels and pixels.  *)
(* px maps <<x, y>> of the data window to the tuple of channel values      *)
(* (channel c is at index c + 1); a deep image has instead, per pixel, a   *)
(* sequence of samples, each a tuple of channel values.                    *)
(***************************************************************************)
ImgXBegin(img) == img.x
ImgXEnd(img) == img.x + img.width
ImgYBegin(img) == img.y
ImgYEnd(img) == img.y + img.height
ImgRoi(img) ==
    ROI(img.x, img.x + img.width, img.y, img.y + img.height, 0, img.nchannels)
ImgRoiFull(img) ==
    ROI(img.full_x, img.full_x + img.full_width, img.full_y,
        img.full_y + img.full_height, 0, img.nchannels)
ImgExists(img, x, y) ==
    /\ ImgXBegin(img) <= x /\ x < ImgXEnd(img)
    /\ ImgYBegin(img) <= y /\ y < ImgYEnd(img)

BlackPixel(nc) == [c \in 1 .. nc |-> RZero]

\* ImageBuf::do_wrap for one axis: the coordinate read in place of v
WrapCoord(v, begin, size, wrap) ==
    CASE wrap = "clamp" -> IClamp(v, begin, begin + size - 1)
      [] wrap = "periodic" -> begin + ((v - begin) % size)
      [] wrap = "mirror" ->
            LET m == (v - begin) % (2 * size)
            IN  begin + (IF m < size THEN m ELSE 2 * size - 1 - m)
      [] OTHER -> v

\* The pixel an iterator with the given wrap mode yields at (x, y).
IterPixel(img, x, y, wrap) ==
    IF ImgExists(img, x, y) THEN img.px[<<x, y>>]
    ELSE IF wrap = "black" THEN BlackPixel(img.nchannels)
    ELSE img.px[<<WrapCoord(x, img.x, img.width, wrap),
                  WrapCoord(y, img.y, img.height, wrap)>>]

\* ImageBuf::deep_samples: no samples outside the data window
DeepSamples(img, x, y) ==
    IF ImgExists(img, x, y) THEN Len(img.samples[<<x, y>>]) ELSE 0

(***************************************************************************)
(* Filter2D: the filters of the registry that rational arithmetic can      *)
(* evaluate.  A filter is [name, w, h].                                    *)
(***************************************************************************)
FilterDescs ==
    << [name |-> "box", width |-> 1, separable |-> TRUE],
       [name |-> "triangle", width |-> 2, separable |-> TRUE],
       [name |-> "blackman-harris", width |-> 3, separable |-> TRUE],
       [name |-> "lanczos3", width |-> 6, separable |-> TRUE],
       [name |-> "disk", width |-> 1, separable |-> FALSE] >>

Filter2D_create(name, w, h) == [name |-> name, w |-> w, h |-> h]
FilterSeparable(f) == f.name # "disk"

tri1d(x) == IF RLt(RAbs(x), ROne) THEN RSub(ROne, RAbs(x)) ELSE RZero

\* lanczos3 at the multiples of 1/2, in 64ths (0.608, -0.135, 0.024 at 1/2,
\* 3/2, 5/2): it is 1 at 0 and 0 at every other integer.
lanczos3(x) ==
    LET a == RAbs(x)
    IN  CASE RLt(R(3), a) -> RZero
          [] a[2] = 1 -> IF a[1] = 0 THEN ROne ELSE RZero
          [] a = <<1, 2>> -> <<39, 64>>
          [] a = <<3, 2>> -> <<-9, 64>>
          [] a = <<5, 2>> -> <<2, 64>>

Filter1D(f, x, width) ==
    CASE f.name = "box" -> IF RLe(RAbs(x), RMul(width, RHalf)) THEN ROne ELSE RZero
      [] f.name = "triangle" -> tri1d(RMul(x, RDiv(R(2), width)))
      [] f.name = "lanczos3" -> lanczos3(RMul(x, RDiv(R(6), width)))

xfilt(f, x) == Filter1D(f, x, f.w)
yfilt(f, y) == Filter1D(f, y, f.h)

\* Filter2D::operator()(x, y)
FilterEval(f, x, y) ==
    IF f.name = "disk"
    THEN LET xs == RMul(x, RDiv(R(2), f.w))
             ys == RMul(y, RDiv(R(2), f.h))
         IN  IF RLt(RAdd(RMul(xs, xs), RMul(ys, ys)), ROne) THEN ROne ELSE RZero
    ELSE RMul(xfilt(f, x), yfilt(f, y))

(***************************************************************************)
(* Dual2: a value with its partial derivatives.                            *)
(***************************************************************************)
Dual2(v, dx, dy) == [val |-> v, dx |-> dx, dy |-> dy]
DualMulF(a, b) == Dual2(RMul(a.val, b), RMul(a.dx, b), RMul(a.dy, b))
DualAdd(a, b) == Dual2(RAdd(a.val, b.val), RAdd(a.dx, b.dx), RAdd(a.dy, b.dy))
DualAddF(a, b) == Dual2(RAdd(a.val, b), a.dx, a.dy)
DualDiv(a, b) ==
    LET bvalinv   == RDiv(ROne, b.val)
        aval_bval == RMul(a.val, bvalinv)
    IN  Dual2(aval_bval,
              RMul(bvalinv, RSub(a.dx, RMul(aval_bval, b.dx))),
              RMul(bvalinv, RSub(a.dy, RMul(aval_bval, b.dy))))

\* the homogeneous coordinate w of (x, y) under M
robust_w(M, x, y) ==
    DualAddF(DualAdd(DualMulF(x, M[1][3]), DualMulF(y, M[2][3])), M[3][3])

\* <<outx, outy>>
robust_multVecMatrix(M, x, y) ==
    LET a == DualAddF(DualAdd(DualMulF(x, M[1][1]), DualMulF(y, M[2][1])), M[3][1])
        b == DualAddF(DualAdd(DualMulF(x, M[1][2]), DualMulF(y, M[2][2])), M[3][2])
        w == robust_w(M, x, y)
    IN  IF w.val # RZero THEN <<DualDiv(a, w), DualDiv(b, w)>>
        ELSE <<Dual2(RZero, RZero, RZero), Dual2(RZero, RZero, RZero)>>

(***************************************************************************)
(* filtered_sample: the footprint of the filter around (s, t) and the      *)
(* normalised weighted sum over it.                                        *)
(***************************************************************************)
\* the footprint left as computed, with edgeclamp or without
filtered_footprint_unclamped(src, s, t, dsdx, dtdx, dsdy, dtdy, filter, edgeclamp) ==
    LET ds == RMax(ROne, RMax(RAbs(dsdx), RAbs(dsdy)))
        dt == RMax(ROne, RMax(RAbs(dtdx), RAbs(dtdy)))
        filterrad_s == RMul(RMul(RHalf, ds), filter.w)
        filterrad_t == RMul(RMul(RHalf, dt), filter.w)
    IN  [smin |-> RFloor(RSub(s, filterrad_s)),
         smax |-> RCeil(RAdd(s, filterrad_s)),
         tmin |-> RFloor(RSub(t, filterrad_t)),
         tmax |-> RCeil(RAdd(t, filterrad_t)),
         ds |-> ds, dt |-> dt]

\* [smin, smax, tmin, tmax, ds, dt]: the iterator covers [smin, smax) x [tmin, tmax)
filtered_footprint(src, s, t, dsdx, dtdx, dsdy, dtdy, filter, edgeclamp) ==
    LET ds == RMax(ROne, RMax(RAbs(dsdx), RAbs(dsdy)))
        dt == RMax(ROne, RMax(RAbs(dtdx), RAbs(dtdy)))
        filterrad_s == RMul(RMul(RHalf, ds), filter.w)
        filterrad_t == RMul(RMul(RHalf, dt), filter.w)
        smin == RFloor(RSub(s, filterrad_s))
        smax == RCeil(RAdd(s, filterrad_s))
        tmin == RFloor(RSub(t, filterrad_t))
        tmax == RCeil(RAdd(t, filterrad_t))
    IN  IF edgeclamp
        THEN [smin |-> IClamp(smin, ImgXBegin(src), ImgXEnd(src)),
              smax |-> IClamp(smax, ImgXBegin(src), ImgXEnd(src)),
              tmin |-> IClamp(tmin, ImgYBegin(src), ImgYEnd(src)),
              tmax |-> IClamp(tmax, ImgYBegin(src), ImgYEnd(src)),
              ds |-> ds, dt |-> dt]
        ELSE [smin |-> smin, smax |-> smax, tmin |-> tmin, tmax |-> tmax,
              ds |-> ds, dt |-> dt]

\* the wrap mode the iterator is constructed with: the assignment of
\* WrapClamp under edgeclamp is commented out
filtered_iter_wrap(wrap, edgeclamp) == wrap

\* the source pixels the iterator visits
filtered_reads(fp) == (fp.smin .. fp.smax - 1) \X (fp.tmin .. fp.tmax - 1)

\* the weight of source pixel (i, j) in the sample at (s, t)
filtered_weight(fp, s, t, filter, i, j) ==
    FilterEval(filter,
               RMul(RDiv(ROne, fp.ds), RSub(RAdd(R(i), RHalf), s)),
               RMul(RDiv(ROne, fp.dt), RSub(RAdd(R(j), RHalf), t)))

filtered_sample(src, s, t, dsdx, dtdx, dsdy, dtdy, filter, wrap, edgeclamp) ==
    LET fp == filtered_footprint(src, s, t, dsdx, dtdx, dsdy, dtdy, filter,
                                 edgeclamp)
        w  == IMax(fp.smax - fp.smin, 0)
        h  == IMax(fp.tmax - fp.tmin, 0)
        n  == w * h
        sx(k) == fp.smin + ((k - 1) % w)
        sy(k) == fp.tmin + ((k - 1) \div w)
        wt == [k \in 1 .. n |-> filtered_weight(fp, s, t, filter, sx(k), sy(k))]
        total_w == RSumFn(wt, n)
        sum == [c \in 1 .. src.nchannels |->
                  RSumFn([k \in 1 .. n |->
                            RMul(wt[k],
                                 IterPixel(src, sx(k), sy(k),
                                           filtered_iter_wrap(wrap, edgeclamp))[c])],
                         n)]
    IN  IF RLt(RZero, total_w)
        THEN [c \in 1 .. src.nchannels |-> RDiv(sum[c], total_w)]
        ELSE [c \in 1 .. src.nchannels |-> RZero]

(***************************************************************************)
(* warp_: one destination pixel of the tile kernel.                        *)
(***************************************************************************)
\* the destination position handed to the inverse matrix
warp_point_corner(x, y) ==
    <<Dual2(R(x), ROne, RZero), Dual2(R(y), RZero, ROne)>>

warp_point(x, y) ==
    <<Dual2(RAdd(R(x), RHalf), ROne, RZero), Dual2(RAdd(R(y), RHalf), RZero, ROne)>>

\* the source-space sample point of destination pixel (x, y)
warp_source_point(M, x, y) ==
    LET Minv == M33Inverse(M)
        p    == warp_point(x, y)
    IN  robust_multVecMatrix(Minv, p[1], p[2])

\* pel[] after filtered_sample
warp_pel(src, M, filter, wrap, edgeclamp, x, y) ==
    LET q == warp_source_point(M, x, y)
    IN  filtered_sample(src, q[1].val, q[2].val, q[1].dx, q[2].dx, q[1].dy,
                        q[2].dy, filter, wrap, edgeclamp)

\* the destination pixel after the kernel wrote channels [chbegin, chend)
WritePixel(old, pel, roi) ==
    [c \in 1 .. Len(old) |->
        IF roi.chbegin < c /\ c <= roi.chend THEN pel[c] ELSE old[c]]

\* the entries of result[] filtered_sample stores to: nc = src.nchannels()
filtered_result_indices(src) == 1 .. src.nchannels

\* the number of entries of pel[] in warp_: nc = dst.nchannels()
warp_scratch_size(d) == d.nchannels

\* pel[]: nc entries cleared once, of which filtered_sample overwrites the
\* first Len(result)
warp_scratch(result, nc) ==
    [c \in 1 .. nc |-> IF c <= Len(result) THEN result[c] ELSE RZero]

warp_pixel(old, src, M, filter, wrap, edgeclamp, roi, x, y) ==
    WritePixel(old,
               warp_scratch(warp_pel(src, M, filter, wrap, edgeclamp, x, y),
                            Len(old)),
               roi)

(***************************************************************************)
(* ImageBuf::ConstIterator over a range [xb, xe) x [yb, ye): its position  *)
(* and whether it is done.                                                 *)
(***************************************************************************)
IterRange(xb, xe, yb, ye) == [xb |-> xb, xe |-> xe, yb |-> yb, ye |-> ye]
IterValid(rng, x, y) ==
    /\ rng.xb <= x /\ x < rng.xe /\ rng.yb <= y /\ y < rng.ye

\* rerange(): at the first pixel of the range, done when the range is empty
IterRerange(rng) ==
    [x |-> rng.xb, y |-> rng.yb, done |-> (rng.xb >= rng.xe \/ rng.yb >= rng.ye)]

\* pos(x, y, z)
IterPos(rng, x, y) == [x |-> x, y |-> y, done |-> ~IterValid(rng, x, y)]

\* operator++: raster order, done after the last pixel of the range
IterInc(rng, p) ==
    IF p.done THEN p
    ELSE IF p.x + 1 < rng.xe THEN [p EXCEPT !.x = p.x + 1]
    ELSE IF p.y + 1 < rng.ye THEN [p EXCEPT !.x = rng.xb, !.y = p.y + 1]
    ELSE [x |-> rng.xb, y |-> rng.yb, done |-> TRUE]

\* operator[]: channel c of the pixel under the iterator; what a done iterator
\* yields is whatever the memory it was left pointing at holds (stale).
IterRead(src, p, c, wrap, stale) ==
    IF p.done \/ c > src.nchannels THEN stale
    ELSE IterPixel(src, p.x, p.y, wrap)[c]

(***************************************************************************)
(* resize_: the tile kernel.  g is the geometry computed at the top of the *)
(* kernel from the two specs and the filter.                               *)
(***************************************************************************)
\* radii of the filter's own radius, not divided by the ratios
resize_geom_narrow(src, dst, filter) ==
    LET xratio == RDiv(R(dst.full_width), R(src.full_width))
        yratio == RDiv(R(dst.full_height), R(src.full_height))
        radi == RCeil(RDiv(filter.w, R(2)))
    IN  [xratio |-> xratio, yratio |-> yratio, radi |-> radi, radj |-> radi,
         xtaps |-> 2 * radi + 1, ytaps |-> 2 * radi + 1]

resize_geom(src, dst, filter) ==
    LET xratio == RDiv(R(dst.full_width), R(src.full_width))
        yratio == RDiv(R(dst.full_height), R(src.full_height))
        filterrad == RDiv(filter.w, R(2))
        radi == RCeil(RDiv(filterrad, xratio))
        radj == RCeil(RDiv(filterrad, yratio))
    IN  [xratio |-> xratio, yratio |-> yratio, radi |-> radi, radj |-> radj,
         xtaps |-> 2 * radi + 1, ytaps |-> 2 * radj + 1]

\* the coordinate of the pixel's corner instead of its centre
resize_src_f_corner(v, dstf, dstfsize, srcf, srcfsize) ==
    LET s == RMul(RSub(R(v), R(dstf)), RDiv(ROne, R(dstfsize)))
    IN  RAdd(R(srcf), RMul(s, R(srcfsize)))

\* src_xf for destination column x (and, with the y fields, src_yf for row y)
resize_src_f(v, dstf, dstfsize, srcf, srcfsize) ==
    LET s == RMul(RAdd(RSub(R(v), R(dstf)), RHalf), RDiv(ROne, R(dstfsize)))
    IN  RAdd(R(srcf), RMul(s, R(srcfsize)))
resize_src_xf(src, dst, x) ==
    resize_src_f(x, dst.full_x, dst.full_width, src.full_x, src.full_width)
resize_src_yf(src, dst, y) ==
    resize_src_f(y, dst.full_y, dst.full_height, src.full_y, src.full_height)
RFrac(a) == RSub(a, R(RFloor(a)))

\* tap weights left as the filter gave them
NormaliseTaps_none(w, n) == w

\* the tap weights before and after normalisation
NormaliseTaps(w, n) ==
    LET total == RSumFn(w, n)
    IN  IF total # RZero THEN [i \in 1 .. n |-> RDiv(w[i], total)] ELSE w

resize_xtaps_raw(src, dst, filter, g, x) ==
    LET frac == RFrac(resize_src_xf(src, dst, x))
    IN  [i \in 1 .. g.xtaps |->
            xfilt(filter, RMul(g.xratio,
                               RSub(R(i - 1 - g.radi), RSub(frac, RHalf))))]

resize_ytaps_raw(src, dst, filter, g, y) ==
    LET frac == RFrac(resize_src_yf(src, dst, y))
    IN  [j \in 1 .. g.ytaps |->
            yfilt(filter, RMul(g.yratio,
                               RSub(R(j - 1 - g.radj), RSub(frac, RHalf))))]

\* a table built from the column's offset in the tile instead of the column
resize_xfiltval_all_local(src, dst, filter, g, tile) ==
    [k \in 1 .. g.xtaps * RoiWidth(tile) |->
        NormaliseTaps(resize_xtaps_raw(src, dst, filter, g,
                                       (k - 1) \div g.xtaps),
                      g.xtaps)[((k - 1) % g.xtaps) + 1]]

\* xfiltval_all: xtaps weights for every column of the tile, column
\* x at offset (x - tile.xbegin) * xtaps
resize_xfiltval_all(src, dst, filter, g, tile) ==
    [k \in 1 .. g.xtaps * RoiWidth(tile) |->
        NormaliseTaps(resize_xtaps_raw(src, dst, filter, g,
                                       tile.xbegin + ((k - 1) \div g.xtaps)),
                      g.xtaps)[((k - 1) % g.xtaps) + 1]]

\* xfiltval of column x: the slice of the tile's table
resize_xfiltval(src, dst, filter, g, tile, x) ==
    LET all == resize_xfiltval_all(src, dst, filter, g, tile)
    IN  [i \in 1 .. g.xtaps |-> all[(x - tile.xbegin) * g.xtaps + i]]

\* the channels of the source pixel a tap reads: nchannels is the
\* destination's
resize_src_channels(d) == 1 .. d.nchannels

\* one tap: accumulate w * srcpel[c] when w is not zero, then ++srcpel
resize_tap(ctx, st, w) ==
    [p |-> IterInc(ctx.rng, st.p),
     total |-> IF w # RZero THEN RAdd(st.total, w) ELSE st.total,
     pel |-> IF w # RZero
             THEN [c \in 1 .. ctx.nchannels |->
                      RAdd(st.pel[c],
                           RMul(w, IterRead(ctx.src, st.p, c, "clamp", ctx.stale)))]
             ELSE st.pel]

RECURSIVE resize_sep_taps(_, _, _, _)
resize_sep_taps(ctx, st, wy, i) ==
    IF i > ctx.g.xtaps THEN st
    ELSE LET next == resize_tap(ctx, st, RMul(wy, ctx.xw[i]))
         \* the comparison has TLC evaluate this tap before the next one
         IN  IF next.p = next.p THEN resize_sep_taps(ctx, next, wy, i + 1)
             ELSE st

\* a row of zero weight passed over with the iterator left where it is
resize_sep_row_stay(ctx, st, j) ==
    IF ctx.yw[j] = RZero THEN st
    ELSE resize_sep_taps(ctx, st, ctx.yw[j], 1)

\* row j of the separable loop; a row of zero weight is skipped by
\* srcpel.pos(srcpel.x(), srcpel.y() + 1, srcpel.z())
resize_sep_row(ctx, st, j) ==
    IF ctx.yw[j] = RZero
    THEN [st EXCEPT !.p = IterPos(ctx.rng, st.p.x, st.p.y + 1)]
    ELSE resize_sep_taps(ctx, st, ctx.yw[j], 1)

\* rows j .. ytaps of the separable loop
RECURSIVE resize_sep_rows(_, _, _)
resize_sep_rows(ctx, st, j) ==
    IF j > ctx.g.ytaps THEN st
    ELSE LET next == resize_sep_row(ctx, st, j)
         IN  IF next.p = next.p THEN resize_sep_rows(ctx, next, j + 1) ELSE st

\* taps k .. xtaps * ytaps of the non-separable loops, j outer and i inner
RECURSIVE resize_gen_taps(_, _, _)
resize_gen_taps(ctx, st, k) ==
    IF k > ctx.g.xtaps * ctx.g.ytaps THEN st
    ELSE LET i == ((k - 1) % ctx.g.xtaps) - ctx.g.radi
             j == ((k - 1) \div ctx.g.xtaps) - ctx.g.radj
             w == FilterEval(ctx.filter,
                     RMul(ctx.g.xratio, RSub(R(i), RSub(ctx.xfrac, RHalf))),
                     RMul(ctx.g.yratio, RSub(R(j), RSub(ctx.yfrac, RHalf))))
             next == resize_tap(ctx, st, w)
         IN  IF next.p = next.p THEN resize_gen_taps(ctx, next, k + 1) ELSE st

\* the taps the loops apply for one output pixel from tap k on, each with the
\* position of the source iterator when it is read, and the iterator when
\* the loops end
RECURSIVE resize_visits(_, _, _, _)
resize_visits(ctx, p, k, acc) ==
    IF k > ctx.g.xtaps * ctx.g.ytaps THEN [taps |-> acc, p |-> p]
    ELSE LET i == ((k - 1) % ctx.g.xtaps) - ctx.g.radi
             j == ((k - 1) \div ctx.g.xtaps) - ctx.g.radj
         IN  IF FilterSeparable(ctx.filter) /\ ctx.yw[j + ctx.g.radj + 1] = RZero
             THEN resize_visits(ctx, IterPos(ctx.rng, p.x, p.y + 1),
                                k + ctx.g.xtaps, acc)
             ELSE resize_visits(ctx, IterInc(ctx.rng, p), k + 1,
                                Append(acc, [i |-> i, j |-> j, p |-> p]))

\* the context of one output pixel: the range the source iterator is given
resize_ctx(src, dst, filter, tile, x, y, stale) ==
    LET g == resize_geom(src, dst, filter)
        src_xf == resize_src_xf(src, dst, x)
        src_yf == resize_src_yf(src, dst, y)
        src_x == RFloor(src_xf)
        src_y == RFloor(src_yf)
        sep == FilterSeparable(filter)
        yrad == IF sep THEN g.radj ELSE g.radi
    IN  [src |-> src, filter |-> filter, g |-> g, stale |-> stale,
         nchannels |-> dst.nchannels,
         xfrac |-> RFrac(src_xf), yfrac |-> RFrac(src_yf),
         src_x |-> src_x, src_y |-> src_y,
         rng |-> IterRange(src_x - g.radi, src_x + g.radi + 1,
                           src_y - yrad, src_y + yrad + 1),
         xw |-> IF sep THEN resize_xfiltval(src, dst, filter, g, tile, x)
                ELSE <<>>,
         yw |-> IF sep
                THEN NormaliseTaps(resize_ytaps_raw(src, dst, filter, g, y),
                                   g.ytaps)
                ELSE <<>>,
         totalweight_y |->
                IF sep
                THEN RSumFn(resize_ytaps_raw(src, dst, filter, g, y), g.ytaps)
                ELSE RZero]

resize_start(ctx) ==
    [p |-> IterRerange(ctx.rng), total |-> RZero,
     pel |-> [c \in 1 .. ctx.nchannels |-> RZero]]

\* the state of the loops when they end: iterator, total weight and pel[]
resize_loops(ctx) ==
    IF FilterSeparable(ctx.filter)
    THEN IF RSumFn(ctx.xw, ctx.g.xtaps) # RZero
         THEN resize_sep_rows(ctx, resize_start(ctx), 1)
         ELSE [resize_start(ctx) EXCEPT !.p = [x |-> 0, y |-> 0, done |-> TRUE]]
    ELSE resize_gen_taps(ctx, resize_start(ctx), 1)

\* the value written to out[c] for every channel c of the destination
resize_pixel(src, dst, filter, tile, x, y, stale) ==
    LET ctx == resize_ctx(src, dst, filter, tile, x, y, stale)
        st  == resize_loops(ctx)
    IN  IF FilterSeparable(filter)
        THEN IF ctx.totalweight_y = RZero
             THEN [c \in 1 .. dst.nchannels |-> RZero]
             ELSE st.pel
        ELSE IF st.total = RZero
             THEN [c \in 1 .. dst.nchannels |-> RZero]
             ELSE [c \in 1 .. dst.nchannels |-> RDiv(st.pel[c], st.total)]

(***************************************************************************)
(* resample_: the tile kernel.                                             *)
(***************************************************************************)
\* the source column taken to be the destination column
resample_src_x_same(src, dst, x) == x

\* the source row taken to be the destination row
resample_src_y_same(src, dst, y) == y

resample_src_x(src, dst, x) == RFloor(resize_src_xf(src, dst, x))
resample_src_y(src, dst, y) == RFloor(resize_src_yf(src, dst, y))

\* ImageBuf::interppixel: bilinear interpolation of the four pixels around
\* (x - 0.5, y - 0.5)
interppixel(src, x, y, wrap) ==
    LET xm == RSub(x, RHalf)
        ym == RSub(y, RHalf)
        xtexel == RFloor(xm)
        ytexel == RFloor(ym)
        xfrac == RFrac(xm)
        yfrac == RFrac(ym)
        p(i, j) == IterPixel(src, xtexel + i, ytexel + j, wrap)
    IN  [c \in 1 .. src.nchannels |->
            RAdd(RMul(RSub(ROne, yfrac),
                      RAdd(RMul(RSub(ROne, xfrac), p(0, 0)[c]),
                           RMul(xfrac, p(1, 0)[c]))),
                 RMul(yfrac,
                      RAdd(RMul(RSub(ROne, xfrac), p(0, 1)[c]),
                           RMul(xfrac, p(1, 1)[c]))))]

\* the non-deep pixel written at (x, y)
resample_pixel(old, src, dst, interpolate, roi, x, y) ==
    IF interpolate
    THEN WritePixel(old, interppixel(src, resize_src_xf(src, dst, x),
                                     resize_src_yf(src, dst, y), "clamp"), roi)
    ELSE WritePixel(old, IterPixel(src, resample_src_x(src, dst, x),
                                   resample_src_y(src, dst, y), "black"), roi)

\* a copy that appends one sample more than the destination pixel holds
resample_deep_pixel_grow(old, src, dst, x, y) ==
    LET sx == resample_src_x(src, dst, x)
        sy == resample_src_y(src, dst, y)
        nsamps == DeepSamples(src, sx, sy)
    IN  IF nsamps = 0 THEN old
        ELSE Append(src.samples[<<sx, sy>>], src.samples[<<sx, sy>>][1])

\* the deep pixel (its samples) after the copy at (x, y): left alone when the
\* source pixel has no samples or the counts differ
resample_deep_pixel(old, src, dst, x, y) ==
    LET sx == resample_src_x(src, dst, x)
        sy == resample_src_y(src, dst, y)
        nsamps == DeepSamples(src, sx, sy)
    IN  IF nsamps = 0 \/ nsamps # Len(old) THEN old
        ELSE [k \in 1 .. nsamps |->
                [c \in 1 .. src.nchannels |-> src.samples[<<sx, sy>>][k][c]]]

(***************************************************************************)
(* The tile-parallel execution of one prepared operation.                  *)
(***************************************************************************)
MkImage(x, y, w, h, fx, fy, fw, fh, nc, deep, px, samples) ==
    [x |-> x, y |-> y, width |-> w, height |-> h,
     full_x |-> fx, full_y |-> fy, full_width |-> fw, full_height |-> fh,
     nchannels |-> nc, deep |-> deep, px |-> px, samples |-> samples]

NoSamples(roi) == [p \in RoiPixels(roi) |-> <<>>]
FillPixels(roi, nc, v) == [p \in RoiPixels(roi) |-> [c \in 1 .. nc |-> v]]

\* a flat source over [0, w) x [0, h): 1 everywhere but 3 at the pixel hot
FlatSource(w, h, hot) ==
    LET roi == ROI(0, w, 0, h, 0, 1)
    IN  MkImage(0, 0, w, h, 0, 0, w, h, 1, FALSE,
                [p \in RoiPixels(roi) |-> <<IF p = hot THEN R(3) ELSE ROne>>],
                NoSamples(roi))

\* a deep source: pixel (x, y) holds (x + y + k) % 3 samples
DeepSource(w, h, k) ==
    LET roi == ROI(0, w, 0, h, 0, 1)
    IN  MkImage(0, 0, w, h, 0, 0, w, h, 1, TRUE,
                FillPixels(roi, 1, RZero),
                [p \in RoiPixels(roi) |->
                    [i \in 1 .. ((p[1] + p[2] + k) % 3) |->
                        <<R(1 + p[1] + 2 * p[2] + 3 * i)>>]])

\* the destination IBAprep allocates: the source's spec with the data window
\* roi and the full window full, black pixels and no samples
PreparedDst(src, roi, full) ==
    MkImage(roi.xbegin, roi.ybegin, RoiWidth(roi), RoiHeight(roi),
            full.xbegin, full.ybegin, RoiWidth(full), RoiHeight(full),
            src.nchannels, src.deep,
            FillPixels(roi, src.nchannels, RZero), NoSamples(roi))

\* parallel_image: the ROI as one tile (nthreads = 1), or cut in two along x
\* (after the first or before the last column) or along y (after the first row)
TilePartitions(roi) ==
    {<<roi>>}
    \cup { <<[roi EXCEPT !.xend = c], [roi EXCEPT !.xbegin = c]>> :
             c \in {roi.xbegin + 1, roi.xend - 1}
                   \cap (roi.xbegin + 1 .. roi.xend - 1) }
    \cup { <<[roi EXCEPT !.yend = r], [roi EXCEPT !.ybegin = r]>> :
             r \in {roi.ybegin + 1} \cap (roi.ybegin + 1 .. roi.yend - 1) }

\* the k-th pixel (from 0) of a tile in raster order
TilePixel(tile, k) ==
    <<tile.xbegin + (k % RoiWidth(tile)), tile.ybegin + (k \div RoiWidth(tile))>>
TileSize(tile) == RoiWidth(tile) * RoiHeight(tile)

(***************************************************************************)
(* The prepared operations the tile model runs.                            *)
(***************************************************************************)
\* (x y 1) * WarpProjective has w = 2x + 1; the inverse has w = 0 at x = 1/2
WarpProjective ==
    M33(ROne, RZero, R(2), RZero, ROne, RZero, RZero, RZero, ROne)

FilterLanczos3 == Filter2D_create("lanczos3", R(6), R(6))
FilterTriangle == Filter2D_create("triangle", R(2), R(2))
FilterBox == Filter2D_create("box", ROne, ROne)
FilterDisk == Filter2D_create("disk", ROne, ROne)

WarpCase(M, filter, wrap, rr) ==
    [M |-> M, filter |-> filter, wrap |-> wrap, recompute_roi |-> rr]

WarpCases ==
    { WarpCase(M33Identity, FilterLanczos3, "black", FALSE),
      WarpCase(M33Translate(RHalf, RZero), FilterLanczos3, "black", FALSE),
      WarpCase(M33Rot90(1), FilterLanczos3, "periodic", TRUE),
      WarpCase(M33Translate(ROne, R(-1)), FilterTriangle, "clamp", TRUE),
      WarpCase(M33Scale(R(2), ROne), FilterTriangle, "black", TRUE),
      WarpCase(M33Scale(R(2), ROne), FilterBox, "black", FALSE),
      WarpCase(WarpProjective, FilterTriangle, "black", FALSE),
      WarpCase(WarpProjective, FilterBox, "mirror", FALSE) }

TileSources ==
    { FlatSource(TileW, TileH, hot) :
        hot \in {<<0, 0>>, <<TileW - 1, TileH - 1>>} }

\* the fields every job has
Job(op, src, dst0, roi, M, filter, wrap, edgeclamp, interpolate) ==
    [op |-> op, src |-> src, dst0 |-> dst0, roi |-> roi, M |-> M,
     filter |-> filter, wrap |-> wrap, edgeclamp |-> edgeclamp,
     interpolate |-> interpolate, stale |-> R(7), clobber |-> FALSE]

\* warp_impl into an uninitialized destination: the ROI is the source's, or
\* its transform when recompute_roi is set; the full window is the source's
WarpJobs ==
    { LET roi == IF c.recompute_roi THEN transform(c.M, ImgRoi(src))
                 ELSE ImgRoi(src)
      IN  Job("warp", src, PreparedDst(src, roi, ImgRoiFull(src)), roi, c.M,
              c.filter, c.wrap, FALSE, FALSE) :
        src \in TileSources, c \in WarpCases }

\* resize into a destination reset to the window [0, dw) x [0, dh)
ResizeCases ==
    { [dw |-> TileW, dh |-> TileH, filter |-> FilterLanczos3],
      [dw |-> TileW, dh |-> TileH, filter |-> FilterDisk],
      [dw |-> TileW, dh |-> TileH, filter |-> FilterBox],
      [dw |-> 1, dh |-> 2, filter |-> FilterBox],
      [dw |-> 2 * TileW, dh |-> TileH,
       filter |-> Filter2D_create("triangle", R(4), R(2))],
      [dw |-> TileW + 1, dh |-> 1, filter |-> FilterTriangle] }

ResizeJobs ==
    { LET roi == ROI(0, c.dw, 0, c.dh, 0, 1)
      IN  Job("resize", src, PreparedDst(src, roi, roi), roi, M33Identity,
              c.filter, "clamp", FALSE, FALSE) :
        src \in TileSources, c \in ResizeCases }

ResampleSizes == { <<TileW, TileH>>, <<2 * TileW, 1>>, <<TileW - 1, TileH + 1>> }

ResampleJobs ==
    { LET roi == ROI(0, d[1], 0, d[2], 0, 1)
      IN  Job("resample", src, PreparedDst(src, roi, roi), roi, M33Identity,
              FilterBox, "clamp", FALSE, interp) :
        src \in {FlatSource(TileW, TileH, <<0, 0>>), DeepSource(TileW, TileH, 1)},
        d \in ResampleSizes, interp \in BOOLEAN }

TileJobs == WarpJobs \cup ResizeJobs \cup ResampleJobs

\* the flat pixel the kernel of tile writes at (x, y)
KernelPixel(j, old, tile, x, y) ==
    CASE j.op = "warp" ->
            \* filtered_sample stores src.nchannels results in pel[]: past its
            \* end when the destination has fewer channels, and what that
            \* store hits is not defined
            IF j.src.nchannels > Len(old) /\ j.clobber
            THEN [c \in 1 .. Len(old) |-> j.stale]
            ELSE warp_pixel(old, j.src, j.M, j.filter, j.wrap, j.edgeclamp,
                            tile, x, y)
      [] j.op = "resize" ->
            resize_pixel(j.src, j.dst0, j.filter, tile, x, y, j.stale)
      [] OTHER ->
            resample_pixel(old, j.src, j.dst0, j.interpolate, tile, x, y)

\* DeepData::set_samples: truncate, or extend with zeroed samples
SetDeepSamples(old, n, nc) ==
    [k \in 1 .. n |-> IF k <= Len(old) THEN old[k] ELSE [c \in 1 .. nc |-> RZero]]

(***************************************************************************)
(* State.                                                                  *)
(***************************************************************************)
VARIABLES
    gR,      \* geometry: the ROI given
    gM,      \* geometry: the matrix given, with the way it was built
    gMid,    \* geometry: transform(M^-1, R), or the undefined ROI
    gOut,    \* geometry: transform(M, transform(M^-1, R)), or the undefined ROI
    job,     \* tiles: the prepared operation and its inputs
    tiles,   \* tiles: the partition of the ROI parallel_image chose
    cur,     \* tiles: per tile, the number of its pixels already written
    dst,     \* tiles: the destination image
    allocCur, \* tiles: the pixels the deep pre-pass has set the count of
    phase,   \* tiles: "idle", "prepass", "kernel" or "done"
    ok       \* tiles: the value the operation returned

geomVars == <<gR, gM, gMid, gOut>>
tileVars == <<job, tiles, cur, dst, allocCur, phase, ok>>


\* the parts of the state a specification does not use
GeomIdle ==
    /\ gR = UndefinedROI /\ gM = [sx |-> 1, sy |-> 1, m |-> M33Identity]
    /\ gMid = UndefinedROI /\ gOut = UndefinedROI
TileIdle ==
    /\ job = <<>> /\ tiles = <<>> /\ cur = <<>> /\ dst = <<>>
    /\ allocCur = 0 /\ phase = "idle" /\ ok = FALSE

(***************************************************************************)
(* The public entry points: filter lookup, destination preparation, filter *)
(* ownership, kernel dispatch and the return-form wrappers.                *)
(*                                                                         *)
(* aCall   the call made: [op, form, by, name, callerFilter, dstInit, roi, *)
(*         recompute_roi, M, exact, srcOk, fmtOk]                          *)
(* aStack  the frames of the functions entered and not yet left            *)
(* aHeap   the filters that exist or have existed: [owner, name]           *)
(* aLog    what happened to filters and errors, in order                   *)
(* aDst    the destination: [init, roi, err, written]                      *)
(* aWork   the running kernel: the ROI it was given and its workers        *)
(* aRet    what the function left last returned: "none", "true", "false"   *)
(***************************************************************************)
ApiSrcRoi == ROI(0, 3, 0, 2, 0, 1)
ApiSrcNChannels == ApiSrcRoi.chend
ApiDstRoi == ROI(1, 3, 0, 2, 0, 1)
ApiCallerRoi == ROI(0, 2, 0, 1, 0, 1)
ApiMatrices == {M33Identity, M33Translate(ROne, RZero), M33Rot90(1)}
ApiFilterNames == {"", "lanczos3", "triangle", "nosuch"}
FilterNames == {FilterDescs[i].name : i \in 1 .. Len(FilterDescs)}

\* the loop over the registry: is a filter of this name described?
FilterLookupAny(name) == TRUE

FilterLookup(name) == \E i \in 1 .. Len(FilterDescs) : FilterDescs[i].name = name

MsgUnknownFilter == "Filter not recognized"
MsgPrep == "IBAprep error"
MsgFormat == "unsupported pixel data format"
MsgCopy == "copy error"
MsgGeneric(op) ==
    CASE op = "warp" -> "ImageBufAlgo::warp() error"
      [] op = "rotate" -> "ImageBufAlgo::rotate() error"
      [] op = "resize" -> "ImageBufAlgo::resize() error"
      [] op = "fit" -> "ImageBufAlgo::fit() error"
      [] OTHER -> "ImageBufAlgo::resample() error"

\* an entry of the log: a filter created, used or destroyed, or an error set
Event(ev, id, msg) == [ev |-> ev, id |-> id, msg |-> msg]

\* dst.errorfmt(): the message joins those already pending
errorfmt(d, msg) == [d EXCEPT !.err = Append(@, msg)]
has_error(d) == Len(d.err) > 0

\* the tail of a return-form wrapper, which reports every failure again
ReturnFormErrorAlways(d, ret, op) ==
    IF ret # "true" THEN errorfmt(d, MsgGeneric(op)) ELSE d

\* the tail of a return-form wrapper: if (!ok && !result.has_error())
ReturnFormError(d, ret, op) ==
    IF ret # "true" /\ ~has_error(d) THEN errorfmt(d, MsgGeneric(op)) ELSE d

\* a scope left with the filter still referenced from it
ScopeExitLeak(log, own) == log

\* the shared_ptr going out of scope: Filter2D::destroy on what it holds
\* (destroy of the null pointer does nothing)
ScopeExit(log, own) ==
    IF own = 0 THEN log ELSE Append(log, Event("destroy", own, ""))

\* IBAprep: [ok, roi, dst] for the ROI asked, the destination and the source
IBAprep(roi, d, srcOk) ==
    IF ~srcOk THEN [ok |-> FALSE, roi |-> roi, dst |-> errorfmt(d, MsgPrep)]
    ELSE IF d.init
    THEN [ok |-> TRUE, roi |-> IF RoiDefined(roi) THEN roi ELSE d.roi, dst |-> d]
    ELSE LET r == IF RoiDefined(roi) THEN roi ELSE ApiSrcRoi
         IN  [ok |-> TRUE, roi |-> r, dst |-> [d EXCEPT !.init = TRUE, !.roi = r]]

\* ImageBuf::reset(spec): the destination reallocated with the spec's ROI
ImageBufReset(d, roi) == [d EXCEPT !.init = TRUE, !.roi = roi]

RoiClampChannels(roi, nc) == [roi EXCEPT !.chend = IMin(@, nc)]

\* the destination ROI of warp, the destination's state disregarded
warp_dst_roi_uninit(d, roi, recompute_roi, M) ==
    RoiClampChannels(IF RoiDefined(roi) THEN roi
                     ELSE IF recompute_roi THEN transform(M, ApiSrcRoi)
                     ELSE ApiSrcRoi,
                     ApiSrcNChannels)

\* warp_impl: the destination ROI handed to IBAprep
warp_dst_roi(d, roi, recompute_roi, M) ==
    RoiClampChannels(IF d.init
                     THEN (IF RoiDefined(roi) THEN roi ELSE d.roi)
                     ELSE IF RoiDefined(roi) THEN roi
                     ELSE IF recompute_roi THEN transform(M, ApiSrcRoi)
                     ELSE ApiSrcRoi,
                     ApiSrcNChannels)

\* get_resize_filter: the name used when none is given
resize_default_filter(roi) ==
    IF RoiWidth(roi) > RoiWidth(ApiSrcRoi) \/ RoiHeight(roi) > RoiHeight(ApiSrcRoi)
    THEN "blackman-harris" ELSE "lanczos3"

\* fit: the size of the window the source is resized to (letterbox)
fit_resize_size(roi) ==
    LET fw == RoiWidth(roi)
        fh == RoiHeight(roi)
        oldaspect == RDiv(R(RoiWidth(ApiSrcRoi)), R(RoiHeight(ApiSrcRoi)))
        newaspect == RDiv(R(fw), R(fh))
    IN  IF RLe(oldaspect, newaspect)
        THEN [w |-> RFloor(RAdd(RMul(R(fh), oldaspect), RHalf)), h |-> fh]
        ELSE [w |-> fw, h |-> RFloor(RAdd(RDiv(R(fw), oldaspect), RHalf))]

VARIABLES aCall, aStack, aHeap, aLog, aDst, aWork, aRet

apiVars == <<aCall, aStack, aHeap, aLog, aDst, aWork, aRet>>

NoWork == [roi |-> UndefinedROI, st |-> <<>>]
FreshDst == [init |-> FALSE, roi |-> UndefinedROI, err |-> <<>>, written |-> 0]

ApiCall(op, form, by, name, cf, di, roi, rr, M, exact, srcOk, fmtOk) ==
    [op |-> op, form |-> form, by |-> by, name |-> name, callerFilter |-> cf,
     dstInit |-> di, roi |-> roi, recompute_roi |-> rr, M |-> M,
     exact |-> exact, srcOk |-> srcOk, fmtOk |-> fmtOk]

ApiNoCall ==
    ApiCall("none", "inplace", "ptr", "", FALSE, FALSE, UndefinedROI, FALSE,
            M33Identity, FALSE, TRUE, TRUE)

ApiIdle ==
    /\ aCall = ApiNoCall /\ aStack = <<>> /\ aHeap = <<>> /\ aLog = <<>>
    /\ aDst = FreshDst /\ aWork = NoWork /\ aRet = "none"

(***************************************************************************)
(* State of the single-call studies: fit(), get_resize_filter() with its   *)
(* callers, and rotate().                                                  *)
(***************************************************************************)
VARIABLES
    fIn,     \* fit: the arguments (src, filter, fillmode, exact, roi)
    fPc,     \* fit: "idle", "prep", "geometry", "filter", "branch",
             \*      "specmod" or "done"
    fGeo,    \* fit: roi after IBAprep, then the locals of lines 728-763
    fFilter, \* fit: the filter in use
    fDst,    \* fit: the destination image
    fOk,     \* fit: the value returned
    sIn,     \* filter selection: the caller's arguments
    sPc,     \* filter selection: "idle", "ratios", "name", "search", "done"
    sRatio,  \* filter selection: wratio and hratio
    sName,   \* filter selection: filtername
    sI,      \* filter selection: the index of the descriptor loop
    sFilter, \* filter selection: the filter created, or none
    sErr,    \* filter selection: the messages on dst
    rIn,     \* rotate: the arguments
    rPc,     \* rotate: "idle", "enter", "matrix", "warp"
    rCenter, \* rotate: center_x, center_y
    rWarp    \* rotate: the arguments passed to warp

fitVars == <<fIn, fPc, fGeo, fFilter, fDst, fOk>>
selVars == <<sIn, sPc, sRatio, sName, sI, sFilter, sErr>>
rotVars == <<rIn, rPc, rCenter, rWarp>>
studyVars == <<fitVars, selVars, rotVars>>

NoFilter == [name |-> "", w |-> RZero, h |-> RZero]

FitIdle ==
    /\ fIn = <<>> /\ fPc = "idle" /\ fGeo = <<>> /\ fFilter = NoFilter
    /\ fDst = <<>> /\ fOk = FALSE
SelIdle ==
    /\ sIn = <<>> /\ sPc = "idle" /\ sRatio = <<>> /\ sName = "" /\ sI = 0
    /\ sFilter = NoFilter /\ sErr = <<>>
RotIdle ==
    /\ rIn = <<>> /\ rPc = "idle" /\ rCenter = <<>> /\ rWarp = <<>>

vars == <<gR, gM, gMid, gOut, job, tiles, cur, dst, allocCur, phase, ok,
          aCall, aStack, aHeap, aLog, aDst, aWork, aRet,
          fIn, fPc, fGeo, fFilter, fDst, fOk,
          sIn, sPc, sRatio, sName, sI, sFilter, sErr,
          rIn, rPc, rCenter, rWarp>>

(***************************************************************************)
(* Geometry: transform applied with the inverse matrix and then with the   *)
(* matrix.                                                                 *)
(***************************************************************************)
GeomScales == {1, 2}

GeomRois ==
    { ROI(xb, xb + w, yb, yb + h, 0, 1) :
        xb \in -GeomMaxOrigin .. 0, yb \in 0 .. GeomMaxOrigin,
        w \in 1 .. GeomMaxSize, h \in 1 .. GeomMaxSize }

\* scale, then quarter turns, then an axis flip, then an integer translation
GeomMatrix(sc, k, fx, tx, ty) ==
    M33Mul(M33Mul(M33Mul(M33Scale(R(sc), R(sc)), M33Rot90(k)),
                  M33Scale(R(fx), ROne)),
           M33Translate(R(tx), R(ty)))

GeomMatrices ==
    { [sx |-> sc, sy |-> sc, m |-> GeomMatrix(sc, k, fx, tx, ty)] :
        sc \in GeomScales, k \in 0 .. 3, fx \in {-1, 1},
        tx \in -GeomMaxShift .. GeomMaxShift, ty \in 0 .. GeomMaxShift }

GeomInit ==
    /\ ApiIdle /\ FitIdle /\ SelIdle /\ RotIdle
    /\ TileIdle
    /\ gR \in GeomRois
    /\ gM \in GeomMatrices
    /\ gMid = UndefinedROI
    /\ gOut = UndefinedROI

GeomInverse ==
    /\ gMid = UndefinedROI
    /\ gMid' = transform(M33Inverse(gM.m), gR)
    /\ UNCHANGED <<gR, gM, gOut>>
    /\ UNCHANGED <<tileVars, apiVars, studyVars>>

GeomForward ==
    /\ RoiDefined(gMid)
    /\ gOut = UndefinedROI
    /\ gOut' = transform(gM.m, gMid)
    /\ UNCHANGED <<gR, gM, gMid>>
    /\ UNCHANGED <<tileVars, apiVars, studyVars>>

GeomNext == GeomInverse \/ GeomForward

SpecGeom == GeomInit /\ [][GeomNext]_vars

(***************************************************************************)
(* Tile execution: the serial deep pre-pass of resample, then one worker   *)
(* per tile, each writing its tile's pixels in raster order.               *)
(***************************************************************************)
TileInit ==
    /\ GeomIdle
    /\ ApiIdle /\ FitIdle /\ SelIdle /\ RotIdle
    /\ job \in TileJobs
    /\ tiles \in TilePartitions(job.roi)
    /\ cur = [t \in 1 .. Len(tiles) |-> 0]
    /\ dst = job.dst0
    /\ allocCur = 0
    /\ phase = IF job.op = "resample" /\ job.dst0.deep THEN "prepass" ELSE "kernel"
    /\ ok = FALSE

\* resample(): one turn of the loop that sets the sample counts
ResamplePrepassStep ==
    /\ phase = "prepass"
    /\ LET p == TilePixel(job.roi, allocCur)
           n == DeepSamples(job.src, resample_src_x(job.src, dst, p[1]),
                            resample_src_y(job.src, dst, p[2]))
       IN  dst' = [dst EXCEPT !.samples[p] = SetDeepSamples(@, n, dst.nchannels)]
    /\ allocCur' = allocCur + 1
    /\ phase' = IF allocCur + 1 = TileSize(job.roi) THEN "kernel" ELSE "prepass"
    /\ UNCHANGED <<job, tiles, cur, ok>>
    /\ UNCHANGED <<geomVars, apiVars, studyVars>>

\* a worker whose destination iterator ranges over the whole ROI
TileStep_whole(t) ==
    /\ phase = "kernel"
    /\ cur[t] < TileSize(tiles[t])
    /\ LET p == TilePixel(job.roi, cur[t])
       IN  dst' = IF dst.deep
                  THEN [dst EXCEPT !.samples[p] =
                           resample_deep_pixel(@, job.src, dst, p[1], p[2])]
                  ELSE [dst EXCEPT !.px[p] =
                           KernelPixel(job, @, tiles[t], p[1], p[2])]
    /\ cur' = [cur EXCEPT ![t] = @ + 1]
    /\ UNCHANGED <<job, tiles, allocCur, phase, ok>>
    /\ UNCHANGED <<geomVars, apiVars, studyVars>>

\* the worker of tile t computes and writes its next pixel
TileStep(t) ==
    /\ phase = "kernel"
    /\ cur[t] < TileSize(tiles[t])
    /\ LET p == TilePixel(tiles[t], cur[t])
       IN  dst' = IF dst.deep
                  THEN [dst EXCEPT !.samples[p] =
                           resample_deep_pixel(@, job.src, dst, p[1], p[2])]
                  ELSE [dst EXCEPT !.px[p] =
                           KernelPixel(job, @, tiles[t], p[1], p[2])]
    /\ cur' = [cur EXCEPT ![t] = @ + 1]
    /\ UNCHANGED <<job, tiles, allocCur, phase, ok>>
    /\ UNCHANGED <<geomVars, apiVars, studyVars>>

\* parallel_image returns when every tile is complete; the kernel returns true
TileFinish ==
    /\ phase = "kernel"
    /\ \A t \in 1 .. Len(tiles) : cur[t] = TileSize(tiles[t])
    /\ phase' = "done"
    /\ ok' = TRUE
    /\ UNCHANGED <<job, tiles, cur, dst, allocCur>>
    /\ UNCHANGED <<geomVars, apiVars, studyVars>>

TileNext ==
    \/ ResamplePrepassStep
    \/ \E t \in 1 .. Len(tiles) : TileStep(t)
    \/ TileFinish

SpecTiles == TileInit /\ [][TileNext]_vars

(***************************************************************************)
(* Kernel studies: resize_ and resample_ run as a single tile over sources *)
(* whose content makes the written values recognisable.                    *)
(***************************************************************************)
\* a flat source over [0, w) x [0, h) holding v in every pixel
ConstSource(w, h, v) ==
    LET roi == ROI(0, w, 0, h, 0, 1)
    IN  MkImage(0, 0, w, h, 0, 0, w, h, 1, FALSE, FillPixels(roi, 1, v),
                NoSamples(roi))

\* a flat source over [x0, x0 + w) x [y0, y0 + h) with a different value in
\* every pixel; its full window is its data window
RampSource(x0, y0, w, h) ==
    LET roi == ROI(x0, x0 + w, y0, y0 + h, 0, 1)
    IN  MkImage(x0, y0, w, h, x0, y0, w, h, 1, FALSE,
                [p \in RoiPixels(roi) |->
                    <<R(1 + (p[1] - x0) + w * (p[2] - y0))>>],
                NoSamples(roi))

\* the 3x3 source of one non-zero pixel, 1.0 at the centre
CentreSource ==
    LET roi == ROI(0, 3, 0, 3, 0, 1)
    IN  MkImage(0, 0, 3, 3, 0, 0, 3, 3, 1, FALSE,
                [p \in RoiPixels(roi) |->
                    <<IF p = <<1, 1>> THEN ROne ELSE RZero>>],
                NoSamples(roi))

ResizeJob(src, dw, dh, filter) ==
    LET roi == ROI(src.full_x, src.full_x + dw, src.full_y, src.full_y + dh, 0, 1)
    IN  Job("resize", src, PreparedDst(src, roi, roi), roi, M33Identity,
            filter, "clamp", FALSE, FALSE)

KernelSizes ==
    { <<TileW, TileH>>, <<1, 1>>, <<2 * TileW, TileH>>, <<TileW + 1, 1>>,
      <<2, TileH + 1>> }

\* separable filters whose taps are never negative
KernelFilters ==
    { FilterBox, FilterTriangle, Filter2D_create("box", R(3), R(3)),
      Filter2D_create("triangle", R(4), R(2)) }

ConstResizeJobs ==
    { ResizeJob(ConstSource(TileW, TileH, R(5)), d[1], d[2], f) :
        d \in KernelSizes, f \in KernelFilters }

\* resize at ratio 1:1: the four filters at their default widths, and two
\* filters wider than their defaults
UnitFilters ==
    { FilterBox, FilterTriangle, FilterLanczos3, FilterDisk,
      Filter2D_create("box", R(3), R(3)),
      Filter2D_create("triangle", R(4), R(4)) }

UnitResizeJobs ==
    { ResizeJob(RampSource(x0, 0, TileW, TileH), TileW, TileH, f) :
        x0 \in {0, 1}, f \in UnitFilters }

\* 3x3 to 1x1 with the box filter, of width 3 and of its default width
CentreResizeJobs ==
    { ResizeJob(CentreSource, 1, 1, f) :
        f \in { Filter2D_create("box", R(3), R(3)), FilterBox } }

\* resample without interpolation: 8x8 to 4x4, and sources and destinations
\* whose windows do not start at the origin
NearestJob(src, roi, full) ==
    Job("resample", src, PreparedDst(src, roi, full), roi, M33Identity,
        FilterBox, "clamp", FALSE, FALSE)

NearestJobs ==
    { NearestJob(RampSource(0, 0, 8, 8), ROI(0, 4, 0, 4, 0, 1),
                 ROI(0, 4, 0, 4, 0, 1)) }
    \cup { NearestJob(RampSource(x0, 1, TileW, TileH),
                      ROI(dx, dx + d[1], 0, d[2], 0, 1),
                      ROI(1, 1 + d[1], 0, d[2], 0, 1)) :
             x0 \in {0, 1}, dx \in {0, 1}, d \in KernelSizes }

KernelJobs ==
    ConstResizeJobs \cup UnitResizeJobs \cup CentreResizeJobs \cup NearestJobs

KernelInit ==
    /\ GeomIdle
    /\ ApiIdle /\ FitIdle /\ SelIdle /\ RotIdle
    /\ job \in KernelJobs
    /\ tiles = <<job.roi>>
    /\ cur = <<0>>
    /\ dst = job.dst0
    /\ allocCur = 0
    /\ phase = "kernel"
    /\ ok = FALSE

KernelNext ==
    \/ \E t \in 1 .. Len(tiles) : TileStep(t)
    \/ TileFinish

SpecKernel == KernelInit /\ [][KernelNext]_vars

(***************************************************************************)
(* fit(dst, src, filter, fillmode, exact, roi): one call, step by step.    *)
(***************************************************************************)
\* C++ integer division, which truncates toward zero
IDivTrunc(a, b) == IF a >= 0 THEN a \div b ELSE -((-a) \div b)

\* int(v + 0.5f) for v >= 0
RoundHalfUp(v) == RFloor(RAdd(v, RHalf))

\* the locals of fit before the letterbox test takes the strict comparison
fit_geometry_strict(src, roi, fillmode) ==
    LET fw == RoiWidth(roi)
        fh == RoiHeight(roi)
        oldaspect == RDiv(R(src.full_width), R(src.full_height))
        newaspect == RDiv(R(fw), R(fh))
        named == IF fillmode # "height" /\ fillmode # "width"
                 THEN "letterbox" ELSE fillmode
        mode == IF named = "letterbox"
                THEN (IF RLt(oldaspect, newaspect) THEN "height" ELSE "width")
                ELSE named
        rw == IF mode = "height" THEN RoundHalfUp(RMul(R(fh), oldaspect)) ELSE fw
        rh == IF mode = "width" THEN RoundHalfUp(RDiv(R(fw), oldaspect)) ELSE fh
        scale == IF mode = "height" THEN RDiv(R(fh), R(src.full_height))
                 ELSE RDiv(R(fw), R(src.full_width))
    IN  [roi |-> roi, fillmode |-> mode,
         fit_full_width |-> fw, fit_full_height |-> fh,
         fit_full_x |-> roi.xbegin, fit_full_y |-> roi.ybegin,
         resize_full_width |-> rw, resize_full_height |-> rh,
         xoffset |-> IF mode = "height" THEN IDivTrunc(fw - rw, 2) ELSE 0,
         yoffset |-> IF mode = "width" THEN IDivTrunc(fh - rh, 2) ELSE 0,
         scale |-> scale,
         xoff |-> IF mode = "height"
                  THEN RDiv(RSub(R(fw), RMul(scale, R(src.full_width))), R(2))
                  ELSE RZero,
         yoff |-> IF mode = "width"
                  THEN RDiv(RSub(R(fh), RMul(scale, R(src.full_height))), R(2))
                  ELSE RZero]

\* the locals of fit after lines 728-763
fit_geometry(src, roi, fillmode) ==
    LET fw == RoiWidth(roi)
        fh == RoiHeight(roi)
        oldaspect == RDiv(R(src.full_width), R(src.full_height))
        newaspect == RDiv(R(fw), R(fh))
        named == IF fillmode # "height" /\ fillmode # "width"
                 THEN "letterbox" ELSE fillmode
        mode == IF named = "letterbox"
                THEN (IF RLe(oldaspect, newaspect) THEN "height" ELSE "width")
                ELSE named
        rw == IF mode = "height" THEN RoundHalfUp(RMul(R(fh), oldaspect)) ELSE fw
        rh == IF mode = "width" THEN RoundHalfUp(RDiv(R(fw), oldaspect)) ELSE fh
        scale == IF mode = "height" THEN RDiv(R(fh), R(src.full_height))
                 ELSE RDiv(R(fw), R(src.full_width))
    IN  [roi |-> roi, fillmode |-> mode,
         fit_full_width |-> fw, fit_full_height |-> fh,
         fit_full_x |-> roi.xbegin, fit_full_y |-> roi.ybegin,
         resize_full_width |-> rw, resize_full_height |-> rh,
         xoffset |-> IF mode = "height" THEN IDivTrunc(fw - rw, 2) ELSE 0,
         yoffset |-> IF mode = "width" THEN IDivTrunc(fh - rh, 2) ELSE 0,
         scale |-> scale,
         xoff |-> IF mode = "height"
                  THEN RDiv(RSub(R(fw), RMul(scale, R(src.full_width))), R(2))
                  ELSE RZero,
         yoff |-> IF mode = "width"
                  THEN RDiv(RSub(R(fh), RMul(scale, R(src.full_height))), R(2))
                  ELSE RZero]

\* the offsets placed in the last column
fit_exact_matrix_column(g) ==
    M33(g.scale, RZero, g.xoff, RZero, g.scale, g.yoff, RZero, RZero, ROne)

\* Imath::M33f M(scale, 0, 0, 0, scale, 0, xoff, yoff, 1)
fit_exact_matrix(g) ==
    M33(g.scale, RZero, RZero, RZero, g.scale, RZero, g.xoff, g.yoff, ROne)

\* the triangle filter fit and resize create when the caller passes none
default_triangle(src, dfw, dfh) ==
    Filter2D_create("triangle",
        RMul(R(2), RMax(ROne, RDiv(R(dfw), R(src.full_width)))),
        RMul(R(2), RMax(ROne, RDiv(R(dfh), R(src.full_height)))))

\* a kernel run over the whole ROI of an image just reset to that ROI
FitResized(src, d0, filter, roi) ==
    [d0 EXCEPT !.px = [p \in RoiPixels(roi) |->
        resize_pixel(src, d0, filter, roi, p[1], p[2], R(7))]]
FitWarped(src, d0, M, filter, roi) ==
    [d0 EXCEPT !.px = [p \in RoiPixels(roi) |->
        warp_pixel(d0.px[p], src, M, filter, "black", TRUE, roi, p[1], p[2])]]

\* specmod().x = x, specmod().y = y: the pixel buffer stays, its origin moves
ImgSetOrigin(img, x, y) ==
    LET roi == ROI(x, x + img.width, y, y + img.height, 0, img.nchannels)
    IN  [img EXCEPT !.x = x, !.y = y,
            !.px = [p \in RoiPixels(roi) |->
                       img.px[<<p[1] - x + img.x, p[2] - y + img.y>>]],
            !.samples = NoSamples(roi)]

\* specmod().full_*: the full window set to the ROI
ImgSetFull(img, roi) ==
    [img EXCEPT !.full_x = roi.xbegin, !.full_y = roi.ybegin,
                !.full_width = RoiWidth(roi), !.full_height = RoiHeight(roi)]

\* sources of a full window at (fx, fy) and a data window of the same size
\* at (dx, dy), every pixel of a different value
FitSource(fx, fy, dx, dy, w, h) ==
    LET roi == ROI(dx, dx + w, dy, dy + h, 0, 1)
    IN  MkImage(dx, dy, w, h, fx, fy, w, h, 1, FALSE,
                [p \in RoiPixels(roi) |->
                    <<R(1 + (p[1] - dx) + w * (p[2] - dy))>>],
                NoSamples(roi))

FitSources ==
    { FitSource(o[1], o[2], o[3], o[4], d[1], d[2]) :
        o \in { <<0, 0, 0, 0>>, <<1, 0, 1, 0>>, <<0, 0, 1, 1>> },
        d \in { <<TileW, TileH>>, <<TileH, TileW>> } }

\* the ROI argument: none, the source's full window, or a target window
FitTargets(src) ==
    { UndefinedROI, ImgRoiFull(src) }
    \cup { ROI(o, o + d[1], 0, d[2], 0, 1) :
             o \in {0, 1},
             d \in { <<TileW + 1, TileH + 1>>, <<TileW + 1, TileH>>,
                     <<TileW - 1, TileH + 2>> } }

FitFillModes == { "letterbox", "height", "width", "stretch" }

FitCalls ==
    { [src |-> src, callerFilter |-> cf, fillmode |-> m, exact |-> e, roi |-> r] :
        src \in FitSources, cf \in {NoFilter, FilterBox}, m \in FitFillModes,
        e \in BOOLEAN, r \in UNION { FitTargets(s) : s \in FitSources } }

FitInit ==
    /\ GeomIdle /\ TileIdle /\ ApiIdle /\ SelIdle /\ RotIdle
    /\ fIn \in { c \in FitCalls : c.roi \in FitTargets(c.src) }
    /\ fPc = "prep"
    /\ fGeo = <<>>
    /\ fFilter = fIn.callerFilter
    /\ fDst = <<>>
    /\ fOk = FALSE

FitOther == UNCHANGED <<geomVars, tileVars, apiVars, selVars, rotVars, fIn>>

\* IBAprep on an uninitialized destination: an undefined roi becomes the
\* source's data window
FitPrepare ==
    /\ fPc = "prep"
    /\ fGeo' = [roi |-> IF RoiDefined(fIn.roi) THEN fIn.roi ELSE ImgRoi(fIn.src)]
    /\ fDst' = PreparedDst(fIn.src, fGeo'.roi, fGeo'.roi)
    /\ fPc' = "geometry"
    /\ UNCHANGED <<fFilter, fOk>>
    /\ FitOther

\* lines 728-763
FitGeometry ==
    /\ fPc = "geometry"
    /\ fGeo' = fit_geometry(fIn.src, fGeo.roi, fIn.fillmode)
    /\ fPc' = "filter"
    /\ UNCHANGED <<fFilter, fDst, fOk>>
    /\ FitOther

\* lines 771-782
FitFilter ==
    /\ fPc = "filter"
    /\ fFilter' = IF fFilter = NoFilter
                  THEN default_triangle(fIn.src, fGeo.resize_full_width,
                                        fGeo.resize_full_height)
                  ELSE fFilter
    /\ fPc' = "branch"
    /\ UNCHANGED <<fGeo, fDst, fOk>>
    /\ FitOther

\* lines 785-797: reset to the target window and warp by the exact matrix
FitExact ==
    /\ fPc = "branch"
    /\ fIn.exact
    /\ LET M == fit_exact_matrix(fGeo)
           d0 == PreparedDst(fIn.src, fGeo.roi, fGeo.roi)
       IN  fDst' = FitWarped(fIn.src, d0, M, fFilter, fGeo.roi)
    /\ fOk' = TRUE
    /\ fPc' = "done"
    /\ UNCHANGED <<fGeo, fFilter>>
    /\ FitOther

\* the test of the sizes alone
fit_needs_resize_sizes(src, g) ==
    \/ g.resize_full_width # src.full_width
    \/ g.resize_full_height # src.full_height

\* lines 802-804: the test that sends non-exact fit to resize
fit_needs_resize(src, g) ==
    \/ g.resize_full_width # src.full_width
    \/ g.resize_full_height # src.full_height
    \/ g.fit_full_x # src.full_x
    \/ g.fit_full_y # src.full_y

\* lines 802-813: reset to the resize window and resize into it
FitResize ==
    /\ fPc = "branch"
    /\ ~fIn.exact
    /\ fit_needs_resize(fIn.src, fGeo)
    /\ LET resizeroi == ROI(fGeo.fit_full_x,
                            fGeo.fit_full_x + fGeo.resize_full_width,
                            fGeo.fit_full_y,
                            fGeo.fit_full_y + fGeo.resize_full_height, 0, 1)
           d0 == PreparedDst(fIn.src, resizeroi, resizeroi)
       IN  fDst' = FitResized(fIn.src, d0, fFilter, resizeroi)
    /\ fOk' = TRUE
    /\ fPc' = "specmod"
    /\ UNCHANGED <<fGeo, fFilter>>
    /\ FitOther

\* lines 814-815: dst.copy(src)
FitCopy ==
    /\ fPc = "branch"
    /\ ~fIn.exact
    /\ ~fit_needs_resize(fIn.src, fGeo)
    /\ fDst' = fIn.src
    /\ fOk' = TRUE
    /\ fPc' = "specmod"
    /\ UNCHANGED <<fGeo, fFilter>>
    /\ FitOther

\* lines 816-821
FitSpecmod ==
    /\ fPc = "specmod"
    /\ fDst' = ImgSetOrigin(ImgSetFull(fDst, fGeo.roi), fGeo.xoffset, fGeo.yoffset)
    /\ fPc' = "done"
    /\ UNCHANGED <<fGeo, fFilter, fOk>>
    /\ FitOther

FitNext ==
    \/ FitPrepare
    \/ FitGeometry
    \/ FitFilter
    \/ FitExact
    \/ FitResize
    \/ FitCopy
    \/ FitSpecmod

SpecFit == FitInit /\ [][FitNext]_vars

(***************************************************************************)
(* The sizes fit computes, in the single-precision arithmetic of lines     *)
(* 732-762.  A float is [m, e] of value m * 2^e with 2^23 <= m < 2^24, or  *)
(* m = 0; every operation rounds its exact result to the nearest such      *)
(* value, ties to the even m.  Only values >= 0 occur.                     *)
(***************************************************************************)
F32Zero == [m |-> 0, e |-> 0]
F32Half == [m |-> 2^23, e |-> -24]

RECURSIVE BitLen(_)
BitLen(n) == IF n = 0 THEN 0 ELSE 1 + BitLen(n \div 2)

\* n * 2^e rounded to 24 significant bits
F32Round(n, e) ==
    IF n = 0 THEN F32Zero
    ELSE LET k == BitLen(n) - 24
         IN  IF k <= 0 THEN [m |-> n * 2^(-k), e |-> e + k]
             ELSE LET q == n \div 2^k
                      r == n % 2^k
                      half == 2^(k - 1)
                      q1 == IF r > half \/ (r = half /\ q % 2 = 1)
                            THEN q + 1 ELSE q
                  IN  IF q1 = 2^24 THEN [m |-> 2^23, e |-> e + k + 1]
                      ELSE [m |-> q1, e |-> e + k]

\* float(n) for an int n >= 0
F32FromInt(n) == F32Round(n, 0)

\* int(x): truncation
F32ToInt(x) ==
    IF x.e >= 0 THEN x.m * 2^x.e
    ELSE IF -x.e >= 24 THEN 0 ELSE x.m \div 2^(-x.e)

F32Le(a, b) ==
    \/ a.m = 0
    \/ b.m # 0 /\ (a.e < b.e \/ (a.e = b.e /\ a.m <= b.m))

\* the quotient bits of r / d, one per step, and the remainder
RECURSIVE F32DivBits(_, _, _, _)
F32DivBits(r, d, q, i) ==
    IF i = 0 THEN <<q, r>>
    ELSE IF r >= d THEN F32DivBits(2 * (r - d), d, 2 * q + 1, i - 1)
         ELSE F32DivBits(2 * r, d, 2 * q, i - 1)

\* a / b, b # 0: 27 quotient bits and a sticky bit, rounded once
F32Div(a, b) ==
    IF a.m = 0 THEN F32Zero
    ELSE LET qr == F32DivBits(a.m, b.m, 0, 27)
         IN  F32Round(2 * qr[1] + (IF qr[2] # 0 THEN 1 ELSE 0),
                      a.e - b.e - 27)

\* a * b: the 48-bit product in halves of 12 bits, its top 27 bits and a
\* sticky bit, rounded once
F32Mul(a, b) ==
    IF a.m = 0 \/ b.m = 0 THEN F32Zero
    ELSE LET ah == a.m \div 4096
             al == a.m % 4096
             bh == b.m \div 4096
             bl == b.m % 4096
             t1 == ah * bl + al * bh
             lofull == al * bl + (t1 % 4096) * 4096
             lo == lofull % 2^24
             hi == ah * bh + t1 \div 4096 + lofull \div 2^24
         IN  F32Round(hi * 16 + (lo \div 2^21) * 2
                        + (IF lo % 2^21 # 0 THEN 1 ELSE 0),
                      a.e + b.e + 20)

\* a + b: the smaller operand aligned with three extra bits, the last sticky
F32Add(a, b) ==
    IF a.m = 0 THEN b
    ELSE IF b.m = 0 THEN a
    ELSE LET big == IF a.e >= b.e THEN a ELSE b
             small == IF a.e >= b.e THEN b ELSE a
             d == big.e - small.e
             s8 == small.m * 8
             sh == IF d > 27 THEN 0 ELSE s8 \div 2^d
             st == IF d > 27 THEN TRUE ELSE s8 % 2^d # 0
             aligned == IF st THEN sh - (sh % 2) + 1 ELSE sh
         IN  F32Round(big.m * 8 + aligned, big.e - 3)

\* the int locals of fit after lines 728-763, computed as the code computes
\* them: oldaspect and newaspect are float quotients of int sizes, and the
\* resized width and height are int(float product or quotient + 0.5f)
fit_sizes_f32(src, roi, fillmode) ==
    LET fw == RoiWidth(roi)
        fh == RoiHeight(roi)
        oldaspect == F32Div(F32FromInt(src.full_width),
                            F32FromInt(src.full_height))
        newaspect == F32Div(F32FromInt(fw), F32FromInt(fh))
        named == IF fillmode # "height" /\ fillmode # "width"
                 THEN "letterbox" ELSE fillmode
        mode == IF named = "letterbox"
                THEN (IF F32Le(oldaspect, newaspect) THEN "height" ELSE "width")
                ELSE named
        rw == IF mode = "height"
              THEN F32ToInt(F32Add(F32Mul(F32FromInt(fh), oldaspect), F32Half))
              ELSE fw
        rh == IF mode = "width"
              THEN F32ToInt(F32Add(F32Div(F32FromInt(fw), oldaspect), F32Half))
              ELSE fh
    IN  [roi |-> roi, fillmode |-> mode,
         fit_full_width |-> fw, fit_full_height |-> fh,
         fit_full_x |-> roi.xbegin, fit_full_y |-> roi.ybegin,
         resize_full_width |-> rw, resize_full_height |-> rh,
         xoffset |-> IF mode = "height" THEN IDivTrunc(fw - rw, 2) ELSE 0,
         yoffset |-> IF mode = "width" THEN IDivTrunc(fh - rh, 2) ELSE 0]

LetterMaxSize == 4

\* the first int above which a float holds even ints only
F32AllInts == 2^24

\* widths and heights: the small ones, and ints a float cannot hold
LetterSizes == (1 .. LetterMaxSize) \cup {F32AllInts + 1, F32AllInts + 3}

\* "stretch" and "" stand for the fill modes fit does not know
LetterFillModes == { "letterbox", "stretch", "" }

\* the state at line 728: the sizes of the source's full window and the
\* target window are all that lines 728-763 read
LetterInit ==
    /\ GeomIdle /\ TileIdle /\ ApiIdle /\ SelIdle /\ RotIdle
    /\ fIn \in { [src |-> [full_width |-> s[1], full_height |-> s[2]],
                  callerFilter |-> NoFilter, fillmode |-> m, exact |-> FALSE,
                  roi |-> ROI(0, d[1], 0, d[2], 0, 1)] :
                    s \in LetterSizes \X LetterSizes,
                    d \in LetterSizes \X LetterSizes,
                    m \in LetterFillModes }
    /\ fPc = "geometry"
    /\ fGeo = [roi |-> fIn.roi]
    /\ fFilter = fIn.callerFilter
    /\ fDst = <<>>
    /\ fOk = FALSE

\* lines 728-763 on the int locals
FitSizes ==
    /\ fPc = "geometry"
    /\ fGeo' = fit_sizes_f32(fIn.src, fGeo.roi, fIn.fillmode)
    /\ fPc' = "filter"
    /\ UNCHANGED <<fFilter, fDst, fOk>>
    /\ FitOther

LetterNext == FitSizes

SpecLetter == LetterInit /\ [][LetterNext]_vars

(***************************************************************************)
(* The kernels on inputs where the shape of the support, the channel       *)
(* counts of the two images, the channel range of the ROI and the edge     *)
(* clamp matter.  The values a read or a store outside its buffer meets    *)
(* are drawn from a set.                                                   *)
(***************************************************************************)
\* a source of nc channels over [0, w) x [0, h), every value different
ChanSource(w, h, nc) ==
    LET roi == ROI(0, w, 0, h, 0, nc)
    IN  MkImage(0, 0, w, h, 0, 0, w, h, nc, FALSE,
                [p \in RoiPixels(roi) |->
                    [c \in 1 .. nc |-> R(1 + p[1] + w * p[2] + 10 * (c - 1))]],
                NoSamples(roi))

\* an initialized destination of nc channels over [0, w) x [0, h), every
\* value 9
FilledDst(w, h, nc) ==
    LET roi == ROI(0, w, 0, h, 0, nc)
    IN  MkImage(0, 0, w, h, 0, 0, w, h, nc, FALSE,
                FillPixels(roi, nc, R(9)), NoSamples(roi))

\* resize at unequal ratios (radi # radj) and at 1:1, with a non-separable
\* and two separable filters
SupportFilters == { FilterDisk, FilterBox, FilterTriangle }

SupportResizeJobs ==
    { ResizeJob(RampSource(0, 0, d[1], d[2]), d[3], d[4], f) :
        d \in { <<TileW, TileH, 1, TileH>>, <<TileH, TileW, TileH, 1>>,
                <<TileW, TileH, TileW, TileH>> },
        f \in SupportFilters }

\* the channel ranges a caller asks for, before the clamps of warp_impl and
\* IBAprep
ChanRanges == { <<0, 1>>, <<1, 2>>, <<0, 3>> }
ChanCounts == 1 .. 3
ChanRoi(r) == ROI(1, TileW, 0, 1, r[1], r[2])

ChanWarpJobs ==
    { LET src == ChanSource(TileW, TileH, 2)
          roi == RoiClampChannels(RoiClampChannels(ChanRoi(r), src.nchannels), nc)
      IN  Job("warp", src, FilledDst(TileW, TileH, nc), roi, M, FilterBox,
              "black", FALSE, FALSE) :
        nc \in ChanCounts, r \in ChanRanges,
        M \in { M33Identity, M33Translate(ROne, RZero) } }

ChanResizeJobs ==
    { LET src == ChanSource(TileW, TileH, 2)
      IN  Job("resize", src, FilledDst(TileW, TileH, nc),
              RoiClampChannels(ChanRoi(r), nc), M33Identity, FilterBox,
              "clamp", FALSE, FALSE) :
        nc \in ChanCounts, r \in ChanRanges }

\* resample with a destination of no more channels than the source
ChanResampleJobs ==
    { LET src == ChanSource(TileW, TileH, 2)
      IN  Job("resample", src, FilledDst(TileW, TileH, nc),
              RoiClampChannels(ChanRoi(r), nc), M33Identity, FilterBox,
              "clamp", FALSE, interp) :
        nc \in 1 .. 2, r \in ChanRanges, interp \in BOOLEAN }

\* the warp of exact fit: the source fitted into a wider, a taller and a
\* larger target window
EdgeTargets ==
    { ROI(0, TileW + 4, 0, TileH, 0, 1), ROI(0, TileW, 0, TileH + 2, 0, 1),
      ROI(0, 2 * TileW, 0, 2 * TileH, 0, 1) }

EdgeJobs ==
    { LET src == RampSource(0, 0, TileW, TileH)
          g   == fit_geometry(src, roi, "letterbox")
          f   == IF own THEN FilterBox
                 ELSE default_triangle(src, g.resize_full_width,
                                       g.resize_full_height)
      IN  Job("warp", src, PreparedDst(src, roi, roi), roi,
              fit_exact_matrix(g), f, "black", TRUE, FALSE) :
        roi \in EdgeTargets, own \in BOOLEAN }

\* warp with filters whose height is not their width
AnisoFilters ==
    { Filter2D_create("triangle", R(4), R(2)),
      Filter2D_create("triangle", R(2), R(4)),
      Filter2D_create("box", ROne, R(3)) }

AnisoJobs ==
    { LET src == RampSource(0, 0, TileW, TileH)
      IN  Job("warp", src, PreparedDst(src, ImgRoi(src), ImgRoiFull(src)),
              ImgRoi(src), M, f, "black", FALSE, FALSE) :
        M \in { M33Identity, M33Scale(R(2), ROne) }, f \in AnisoFilters }

SupportJobs ==
    SupportResizeJobs \cup ChanWarpJobs \cup ChanResizeJobs
    \cup ChanResampleJobs \cup EdgeJobs \cup AnisoJobs

\* what a read past the end of a buffer may find
StaleValues == { R(7), R(-2) }

SupportInit ==
    /\ GeomIdle
    /\ ApiIdle /\ FitIdle /\ SelIdle /\ RotIdle
    /\ job \in { [j EXCEPT !.stale = v, !.clobber = b] :
                   j \in SupportJobs, v \in StaleValues, b \in BOOLEAN }
    /\ tiles = <<job.roi>>
    /\ cur = <<0>>
    /\ dst = job.dst0
    /\ allocCur = 0
    /\ phase = "kernel"
    /\ ok = FALSE

SpecSupport == SupportInit /\ [][KernelNext]_vars


(***************************************************************************)
(* The entry points as a machine of frames: one action per stretch of a    *)
(* function between the calls it makes.                                    *)
(***************************************************************************)
\* wrap and edgeclamp are what warp_impl is handed: the caller's wrap mode
\* and false from the public entry points
Frame(fn, pc, filter, roi, recompute_roi) ==
    [fn |-> fn, pc |-> pc, own |-> 0, filter |-> filter, roi |-> roi,
     recompute_roi |-> recompute_roi, ok |-> TRUE, wrap |-> "caller",
     edgeclamp |-> FALSE]

Top == aStack[Len(aStack)]
Pop == SubSeq(aStack, 1, Len(aStack) - 1)
SetTop(f) == [aStack EXCEPT ![Len(aStack)] = f]
At(fn, pc) == Len(aStack) > 0 /\ Top.fn = fn /\ Top.pc = pc

\* how the filter is given: a pointer (null or the caller's) or a name
ApiFilterArgs ==
    {[by |-> "ptr", name |-> "", cf |-> cf] : cf \in BOOLEAN}
    \cup {[by |-> "name", name |-> n, cf |-> FALSE] : n \in ApiFilterNames}

ApiCalls ==
    {ApiCall(op, form, fa.by, fa.name, fa.cf, di, roi, rr, M, FALSE, srcOk, fmtOk) :
        op \in {"warp", "rotate"}, form \in {"inplace", "return"},
        fa \in ApiFilterArgs, di \in BOOLEAN, roi \in {UndefinedROI, ApiCallerRoi},
        rr \in BOOLEAN, M \in ApiMatrices, srcOk \in BOOLEAN, fmtOk \in BOOLEAN}
    \cup
    {ApiCall(op, form, fa.by, fa.name, fa.cf, di, roi, FALSE, M33Identity, exact,
             srcOk, fmtOk) :
        op \in {"resize", "fit"}, form \in {"inplace", "return"},
        fa \in ApiFilterArgs, di \in BOOLEAN, roi \in {UndefinedROI, ApiCallerRoi},
        exact \in BOOLEAN, srcOk \in BOOLEAN, fmtOk \in BOOLEAN}
    \cup
    {ApiCall("resample", form, "ptr", "", FALSE, di, roi, FALSE, M33Identity, FALSE,
             srcOk, fmtOk) :
        form \in {"inplace", "return"}, di \in BOOLEAN,
        roi \in {UndefinedROI, ApiCallerRoi}, srcOk \in BOOLEAN, fmtOk \in BOOLEAN}

\* a return-form call has a fresh destination; resize ignores exact
ApiCallValid(c) ==
    /\ (c.form = "return" => ~c.dstInit)
    /\ (c.op = "resize" => ~c.exact)

\* the in-place function a call enters; the caller's filter, when there is
\* one, is the first of the heap
EntryFrame(c) ==
    LET f == IF c.callerFilter THEN Len(<<"caller">>) ELSE 0
        fn == CASE c.op = "resample" -> "resample"
                [] c.op = "rotate" -> "rotate"
                [] c.op = "warp" /\ c.by = "name" -> "warp_name"
                [] c.op = "warp" -> "warp_impl"
                [] c.op = "resize" /\ c.by = "name" -> "resize_name"
                [] c.op = "fit" /\ c.by = "name" -> "fit_name"
                [] OTHER -> c.op
        pc == CASE fn = "rotate" -> "enter"
                [] fn = "warp_name" -> "lookup"
                [] OTHER -> "prep"
    IN  Frame(fn, pc, f, c.roi, c.recompute_roi)

ApiInit ==
    /\ GeomIdle /\ TileIdle /\ FitIdle /\ SelIdle /\ RotIdle
    /\ aCall \in {c \in ApiCalls : ApiCallValid(c)}
    /\ aStack = IF aCall.form = "return"
                THEN <<Frame("wrapper", "call", 0, aCall.roi, FALSE)>>
                ELSE <<EntryFrame(aCall)>>
    /\ aHeap = IF aCall.callerFilter
               THEN <<[owner |-> "caller", name |-> "triangle"]>> ELSE <<>>
    /\ aLog = <<>>
    /\ aDst = IF aCall.dstInit THEN ImageBufReset(FreshDst, ApiDstRoi) ELSE FreshDst
    /\ aWork = NoWork
    /\ aRet = "none"

ApiOther == UNCHANGED <<geomVars, tileVars, studyVars, aCall>>

\* the function on top returns ret; its shared_ptr releases what it holds
Return(ret, log) ==
    /\ aStack' = Pop
    /\ aRet' = ret
    /\ aLog' = ScopeExit(log, Top.own)

\* the function on top fails with a message on the destination
Fail(msg) ==
    /\ aDst' = errorfmt(aDst, msg)
    /\ Return("false", Append(aLog, Event("error", 0, msg)))
    /\ UNCHANGED <<aHeap, aWork>>

\* the function on top calls another
Push(f, callee) == aStack' = Append(SetTop(f), callee)

\* ImageBuf result; bool ok = op(result, ...)
WrapperCall ==
    /\ At("wrapper", "call")
    /\ Push([Top EXCEPT !.pc = "called"], EntryFrame(aCall))
    /\ UNCHANGED <<aHeap, aLog, aDst, aWork, aRet>>
    /\ ApiOther

\* if (!ok && !result.has_error()) result.errorfmt(...); return result
WrapperReturn ==
    /\ At("wrapper", "called")
    /\ aDst' = ReturnFormError(aDst, aRet, aCall.op)
    /\ aStack' = Pop
    /\ UNCHANGED <<aHeap, aLog, aWork, aRet>>
    /\ ApiOther

\* rotate: the matrix is built and warp is called with it
RotateEnter ==
    /\ At("rotate", "enter")
    /\ Push([Top EXCEPT !.pc = "called"],
            Frame(IF aCall.by = "name" THEN "warp_name" ELSE "warp_impl",
                  IF aCall.by = "name" THEN "lookup" ELSE "prep",
                  Top.filter, Top.roi, Top.recompute_roi))
    /\ UNCHANGED <<aHeap, aLog, aDst, aWork, aRet>>
    /\ ApiOther

RotateReturn ==
    /\ At("rotate", "called")
    /\ Return(aRet, aLog)
    /\ UNCHANGED <<aHeap, aDst, aWork>>
    /\ ApiOther

\* warp by filter name: the registry is searched before anything else
WarpNameLookup ==
    /\ At("warp_name", "lookup")
    /\ LET filtername == IF aCall.name = "" THEN "lanczos3" ELSE aCall.name
       IN  IF FilterLookup(filtername)
           THEN /\ aHeap' = Append(aHeap, [owner |-> "core", name |-> filtername])
                /\ aLog' = Append(aLog, Event("create", Len(aHeap) + 1, ""))
                /\ Push([Top EXCEPT !.own = Len(aHeap) + 1, !.pc = "called"],
                        Frame("warp_impl", "prep", Len(aHeap) + 1, Top.roi,
                              Top.recompute_roi))
                /\ UNCHANGED <<aDst, aWork, aRet>>
           ELSE Fail(MsgUnknownFilter)
    /\ ApiOther

WarpNameReturn ==
    /\ At("warp_name", "called")
    /\ Return(aRet, aLog)
    /\ UNCHANGED <<aHeap, aDst, aWork>>
    /\ ApiOther

\* warp_impl up to IBAprep
WarpImplPrep ==
    /\ At("warp_impl", "prep")
    /\ LET dst_roi == warp_dst_roi(aDst, Top.roi, Top.recompute_roi, aCall.M)
           p == IBAprep(dst_roi, aDst, aCall.srcOk)
       IN  IF p.ok
           THEN /\ aDst' = p.dst
                /\ aStack' = SetTop([Top EXCEPT !.pc = "filter", !.roi = p.roi])
                /\ UNCHANGED <<aHeap, aLog, aWork, aRet>>
           ELSE /\ aDst' = p.dst
                /\ aStack' = Pop
                /\ aRet' = "false"
                /\ aLog' = Append(aLog, Event("error", 0, MsgPrep))
                /\ UNCHANGED <<aHeap, aWork>>
    /\ ApiOther

\* the kernel is dispatched on the pixel formats, or the dispatch fails
Dispatch(f, heap, log) ==
    IF aCall.fmtOk
    THEN /\ aStack' = SetTop([f EXCEPT !.pc = "kernel"])
         /\ aHeap' = heap
         /\ aLog' = log
         /\ aWork' = [roi |-> f.roi, st |-> [t \in 1 .. ApiWorkers |-> "ready"]]
         /\ UNCHANGED <<aDst, aRet>>
    ELSE /\ aDst' = errorfmt(aDst, MsgFormat)
         /\ aStack' = Pop
         /\ aRet' = "false"
         /\ aHeap' = heap
         /\ aLog' = ScopeExit(Append(log, Event("error", 0, MsgFormat)), f.own)
         /\ UNCHANGED aWork

\* the frame with the default filter created when none was given
WithDefaultFilter(f, name) ==
    IF f.filter = 0
    THEN [frame |-> [f EXCEPT !.own = Len(aHeap) + 1, !.filter = Len(aHeap) + 1],
          heap |-> Append(aHeap, [owner |-> "core", name |-> name]),
          log |-> Append(aLog, Event("create", Len(aHeap) + 1, ""))]
    ELSE [frame |-> f, heap |-> aHeap, log |-> aLog]

\* warp_impl: the default filter, then the kernel
WarpImplDispatch ==
    /\ At("warp_impl", "filter")
    /\ LET d == WithDefaultFilter(Top, "lanczos3")
       IN  Dispatch(d.frame, d.heap, d.log)
    /\ ApiOther

\* a worker of parallel_image runs the kernel on its tile
KernelWorker(t) ==
    /\ Len(aStack) > 0 /\ Top.pc = "kernel"
    /\ aWork.st[t] = "ready"
    /\ aWork' = [aWork EXCEPT !.st[t] = "done"]
    /\ aLog' = IF Top.filter = 0 THEN aLog ELSE Append(aLog, Event("use", Top.filter, ""))
    /\ aDst' = [aDst EXCEPT !.written = @ + 1]
    /\ UNCHANGED <<aStack, aHeap, aRet>>
    /\ ApiOther

KernelDone == \A t \in 1 .. Len(aWork.st) : aWork.st[t] = "done"

\* parallel_image has returned; the kernel's result is returned
KernelReturn ==
    /\ KernelDone
    /\ Return("true", aLog)
    /\ aWork' = [aWork EXCEPT !.st = <<>>]
    /\ UNCHANGED <<aHeap, aDst>>
    /\ ApiOther

WarpImplReturn ==
    /\ At("warp_impl", "kernel")
    /\ KernelReturn

ResizeReturn ==
    /\ At("resize", "kernel")
    /\ KernelReturn

ResampleReturn ==
    /\ At("resample", "kernel")
    /\ KernelReturn

\* IBAprep at the head of resize, fit and resample
PrepStep(next) ==
    /\ LET p == IBAprep(Top.roi, aDst, aCall.srcOk)
       IN  IF p.ok
           THEN /\ aDst' = p.dst
                /\ aStack' = SetTop([Top EXCEPT !.pc = next, !.roi = p.roi])
                /\ UNCHANGED <<aHeap, aLog, aWork, aRet>>
           ELSE /\ aDst' = p.dst
                /\ aStack' = Pop
                /\ aRet' = "false"
                /\ aLog' = Append(aLog, Event("error", 0, MsgPrep))
                /\ UNCHANGED <<aHeap, aWork>>
    /\ ApiOther

ResizePrep ==
    /\ At("resize", "prep")
    /\ PrepStep("filter")

ResizeNamePrep ==
    /\ At("resize_name", "prep")
    /\ PrepStep("getfilter")

FitPrep ==
    /\ At("fit", "prep")
    /\ PrepStep("filter")

FitNamePrep ==
    /\ At("fit_name", "prep")
    /\ PrepStep("getfilter")

ResamplePrep ==
    /\ At("resample", "prep")
    /\ PrepStep("filter")

\* resize: the default triangle filter, then the kernel
ResizeDispatch ==
    /\ At("resize", "filter")
    /\ LET d == WithDefaultFilter(Top, "triangle")
       IN  Dispatch(d.frame, d.heap, d.log)
    /\ ApiOther

\* resample has no filter
ResampleDispatch ==
    /\ At("resample", "filter")
    /\ Dispatch(Top, aHeap, aLog)
    /\ ApiOther

\* get_resize_filter and the call it guards, in resize and fit by name
GetFilterStep(callee) ==
    /\ LET filtername == IF aCall.name = "" THEN resize_default_filter(Top.roi)
                         ELSE aCall.name
       IN  IF FilterLookup(filtername)
           THEN /\ aHeap' = Append(aHeap, [owner |-> "core", name |-> filtername])
                /\ aLog' = Append(aLog, Event("create", Len(aHeap) + 1, ""))
                /\ Push([Top EXCEPT !.own = Len(aHeap) + 1, !.pc = "called"],
                        Frame(callee, "prep", Len(aHeap) + 1, Top.roi, FALSE))
                /\ UNCHANGED <<aDst, aWork, aRet>>
           ELSE Fail(MsgUnknownFilter)
    /\ ApiOther

ResizeNameFilter ==
    /\ At("resize_name", "getfilter")
    /\ GetFilterStep("resize")

FitNameFilter ==
    /\ At("fit_name", "getfilter")
    /\ GetFilterStep("fit")

NameReturn ==
    /\ Return(aRet, aLog)
    /\ UNCHANGED <<aHeap, aDst, aWork>>
    /\ ApiOther

ResizeNameReturn ==
    /\ At("resize_name", "called")
    /\ NameReturn

FitNameReturn ==
    /\ At("fit_name", "called")
    /\ NameReturn

\* fit: the default filter, then the exact warp, the resize or the copy
FitDispatch ==
    /\ At("fit", "filter")
    /\ LET d == WithDefaultFilter(Top, "triangle")
           f == [d.frame EXCEPT !.pc = "called"]
           newroi == RoiClampChannels(Top.roi, ApiSrcNChannels)
           sz == fit_resize_size(Top.roi)
           resizeroi == ROI(Top.roi.xbegin, Top.roi.xbegin + sz.w,
                            Top.roi.ybegin, Top.roi.ybegin + sz.h, 0, ApiSrcNChannels)
       IN  /\ aHeap' = d.heap
           /\ IF aCall.exact
              THEN /\ aDst' = ImageBufReset(aDst, newroi)
                   /\ Push(f, [Frame("warp_impl", "prep", f.filter, UndefinedROI,
                                     FALSE)
                                 EXCEPT !.wrap = "black", !.edgeclamp = TRUE])
                   /\ aLog' = d.log
                   /\ UNCHANGED aRet
              ELSE IF \/ sz.w # RoiWidth(ApiSrcRoi) \/ sz.h # RoiHeight(ApiSrcRoi)
                      \/ Top.roi.xbegin # ApiSrcRoi.xbegin
                      \/ Top.roi.ybegin # ApiSrcRoi.ybegin
              THEN /\ aDst' = ImageBufReset(aDst, resizeroi)
                   /\ Push(f, Frame("resize", "prep", f.filter, resizeroi, FALSE))
                   /\ aLog' = d.log
                   /\ UNCHANGED aRet
              ELSE \* dst.copy(src)
                   \E outcome \in {"ok", "message", "silent"} :
                      /\ aStack' = SetTop(f)
                      /\ aRet' = IF outcome = "ok" THEN "true" ELSE "false"
                      /\ aDst' = IF outcome = "message" THEN errorfmt(aDst, MsgCopy)
                                 ELSE aDst
                      /\ aLog' = IF outcome = "message"
                                 THEN Append(d.log, Event("error", 0, MsgCopy)) ELSE d.log
    /\ UNCHANGED aWork
    /\ ApiOther

\* fit returns what the warp, the resize or the copy returned; the inexact
\* fit first moves the data window to the offset that centres it
FitReturn ==
    /\ At("fit", "called")
    /\ Return(aRet, aLog)
    /\ LET sz == fit_resize_size(Top.roi)
           xoffset == (RoiWidth(Top.roi) - sz.w) \div 2
           yoffset == (RoiHeight(Top.roi) - sz.h) \div 2
       IN  aDst' = IF aCall.exact THEN aDst
                   ELSE [aDst EXCEPT !.roi =
                            ROI(xoffset, xoffset + RoiWidth(aDst.roi),
                                yoffset, yoffset + RoiHeight(aDst.roi),
                                aDst.roi.chbegin, aDst.roi.chend)]
    /\ UNCHANGED <<aHeap, aWork>>
    /\ ApiOther

ApiNext ==
    \/ WrapperCall \/ WrapperReturn
    \/ RotateEnter \/ RotateReturn
    \/ WarpNameLookup \/ WarpNameReturn
    \/ WarpImplPrep \/ WarpImplDispatch \/ WarpImplReturn
    \/ \E t \in 1 .. Len(aWork.st) : KernelWorker(t)
    \/ ResizePrep \/ ResizeDispatch \/ ResizeReturn
    \/ ResizeNamePrep \/ ResizeNameFilter \/ ResizeNameReturn
    \/ FitPrep \/ FitDispatch \/ FitReturn
    \/ FitNamePrep \/ FitNameFilter \/ FitNameReturn
    \/ ResamplePrep \/ ResampleDispatch \/ ResampleReturn

SpecApi == ApiInit /\ [][ApiNext]_vars

(***************************************************************************)
(* The calls of fit and of the public entry points, side by side: a        *)
(* behaviour is one of fit on images or one of an entry point's frames.    *)
(***************************************************************************)
EntryInit == FitInit \/ ApiInit
EntryNext == FitNext \/ ApiNext
SpecEntry == EntryInit /\ [][EntryNext]_vars

(***************************************************************************)
(* What the operation, run serially on the whole ROI as one tile, leaves   *)
(* in the destination.                                                     *)
(***************************************************************************)
SerialSamples(p) ==
    LET n == DeepSamples(job.src, resample_src_x(job.src, job.dst0, p[1]),
                         resample_src_y(job.src, job.dst0, p[2]))
    IN  resample_deep_pixel(SetDeepSamples(<<>>, n, job.dst0.nchannels),
                            job.src, job.dst0, p[1], p[2])

SerialDst ==
    IF job.dst0.deep
    THEN [job.dst0 EXCEPT !.samples = [p \in RoiPixels(job.roi) |-> SerialSamples(p)]]
    ELSE [job.dst0 EXCEPT !.px =
            [p \in RoiPixels(job.roi) |->
                KernelPixel(job, job.dst0.px[p], job.roi, p[1], p[2])]]

(***************************************************************************)
(* C1: for warp, resize and resample, whatever the partition of the ROI    *)
(* into tiles and the interleaving of the workers, the destination ends    *)
(* with the contents the single-tile (nthreads = 1) run gives it.          *)
(***************************************************************************)
C1_SerialParallelEquivalence == phase = "done" => dst = SerialDst

C1_Witness ==
    /\ phase = "done" /\ job.op = "resize" /\ Len(tiles) = 2
    /\ tiles[2].xbegin > job.roi.xbegin
    /\ \E p \in RoiPixels(tiles[2]), q \in RoiPixels(tiles[1]) :
          dst.px[p] # dst.px[q]

(***************************************************************************)
(* C2: in resample on a deep destination every set_deep_samples call       *)
(* happens before any tile worker starts, and no step of a worker changes  *)
(* the sample count of any pixel.                                          *)
(***************************************************************************)
C2_DeepPrepassSerial ==
    [][/\ (allocCur' # allocCur => \A t \in 1 .. Len(tiles) : cur[t] = 0)
       /\ (cur' # cur =>
             /\ (job.dst0.deep => allocCur = TileSize(job.roi))
             /\ \A p \in RoiPixels(job.roi) :
                   Len(dst'.samples[p]) = Len(dst.samples[p]))]_vars

C2_Witness ==
    /\ job.op = "resample" /\ job.dst0.deep /\ Len(tiles) = 2
    /\ cur[1] > 0 /\ cur[2] > 0
    /\ \E p \in RoiPixels(job.roi) :
          Len(dst.samples[p]) > 0 /\ dst.samples[p][1][1] # RZero

C3_SrcCoord(v, dstf, dstfsize, srcf, srcfsize) ==
    RFloor(RAdd(R(srcf),
                RMul(RDiv(RAdd(R(v - dstf), RHalf), R(dstfsize)), R(srcfsize))))

(***************************************************************************)
(* C3: after resample on a deep image every destination pixel (x, y) of    *)
(* the ROI has the sample count and the sample values of the source pixel  *)
(* (src_x, src_y), src_x = floor(src_full_x + (x - dst_full_x + 0.5) /     *)
(* dst_full_width * src_full_width) and src_y likewise.                    *)
(***************************************************************************)
C3_DeepSamplesPreserved ==
    (phase = "done" /\ job.op = "resample" /\ job.dst0.deep) =>
        \A p \in RoiPixels(job.roi) :
            LET sx == C3_SrcCoord(p[1], dst.full_x, dst.full_width,
                                  job.src.full_x, job.src.full_width)
                sy == C3_SrcCoord(p[2], dst.full_y, dst.full_height,
                                  job.src.full_y, job.src.full_height)
            IN  dst.samples[p] =
                    IF ImgExists(job.src, sx, sy) THEN job.src.samples[<<sx, sy>>]
                    ELSE <<>>

C3_Witness ==
    /\ phase = "done" /\ job.op = "resample" /\ job.dst0.deep
    /\ dst.full_width # job.src.full_width
    /\ \E p \in RoiPixels(job.roi) : Len(dst.samples[p]) = 2
    /\ \E p \in RoiPixels(job.roi) : Len(dst.samples[p]) = 0

WarpSingularAt(p) ==
    LET q == warp_point(p[1], p[2])
    IN  robust_w(M33Inverse(job.M), q[1], q[2]).val = RZero

(***************************************************************************)
(* C4: in warp, a destination pixel whose inverse-mapped homogeneous       *)
(* coordinate w is 0 is written as all zeros, and the operation returns    *)
(* true.                                                                   *)
(***************************************************************************)
C4_SingularPixelIsZero ==
    (phase = "done" /\ job.op = "warp") =>
        /\ ok
        /\ \A p \in RoiPixels(job.roi) :
              WarpSingularAt(p) => dst.px[p] = BlackPixel(dst.nchannels)

C4_Witness ==
    /\ phase = "done" /\ job.op = "warp" /\ ok
    /\ \E p \in RoiPixels(job.roi) :
          WarpSingularAt(p) /\ dst.px[p] # BlackPixel(dst.nchannels)

IdentityWarpJob ==
    /\ job.op = "warp" /\ job.M = M33Identity /\ job.filter = FilterLanczos3
    /\ job.wrap = "black" /\ ~job.edgeclamp /\ job.roi = ImgRoi(job.src)

(***************************************************************************)
(* C10: warp by the identity matrix with the default filter (lanczos3 of   *)
(* width 6), black wrap and no edge clamp writes to every destination      *)
(* pixel of src.roi the source pixel at the same coordinates, border       *)
(* pixels included.                                                        *)
(***************************************************************************)
C10_IdentityWarpCopies ==
    (phase = "done" /\ IdentityWarpJob) =>
        \A p \in RoiPixels(job.roi) : dst.px[p] = job.src.px[p]

C10_Witness ==
    /\ phase = "done" /\ IdentityWarpJob /\ Len(tiles) = 2
    /\ dst.px[<<job.roi.xend - 1, job.roi.yend - 1>>] = <<R(3)>>

UnknownFilterCall ==
    /\ aCall.op \in {"warp", "resize", "fit", "rotate"}
    /\ aCall.by = "name" /\ aCall.name # "" /\ aCall.name \notin FilterNames

LogPos(ev, id) == {i \in 1 .. Len(aLog) : aLog[i].ev = ev /\ aLog[i].id = id}
LogCreates == {i \in 1 .. Len(aLog) : aLog[i].ev = "create"}

(***************************************************************************)
(* C5: warp, resize, fit and rotate called with a filter name that is not  *)
(* in the registry return false with an error message on the destination;  *)
(* no filter is created and no kernel worker runs.                         *)
(***************************************************************************)
C5_UnknownFilterFails ==
    UnknownFilterCall =>
        /\ LogCreates = {}
        /\ Len(aHeap) = 0
        /\ aDst.written = 0 /\ aWork.st = <<>>
        /\ (aStack = <<>> => aRet = "false" /\ has_error(aDst))

C5_Witness ==
    /\ UnknownFilterCall /\ aStack = <<>> /\ aCall.op = "fit" /\ aCall.srcOk
    /\ aDst.err = <<MsgUnknownFilter>> /\ aDst.init

RECURSIVE CalleeErrors(_)
CalleeErrors(n) ==
    IF n = 0 THEN <<>>
    ELSE IF aLog[n].ev = "error" THEN Append(CalleeErrors(n - 1), aLog[n].msg)
    ELSE CalleeErrors(n - 1)

(***************************************************************************)
(* C6: when a return-form operation is over, the returned image has an     *)
(* error if the in-place form returned false; its messages are those the   *)
(* in-place form set, in order, and the generic message is there only when *)
(* the in-place form returned false and set none.                          *)
(***************************************************************************)
C6_ReturnFormError ==
    (aCall.form = "return" /\ aStack = <<>>) =>
        /\ (aRet = "false" => has_error(aDst))
        /\ aDst.err = IF aRet = "false" /\ CalleeErrors(Len(aLog)) = <<>>
                      THEN <<MsgGeneric(aCall.op)>>
                      ELSE CalleeErrors(Len(aLog))
        /\ (aRet = "true" => ~has_error(aDst))

C6_Witness ==
    /\ aCall.form = "return" /\ aStack = <<>> /\ aRet = "false"
    /\ aDst.err = <<MsgGeneric(aCall.op)>>

(***************************************************************************)
(* C7: in warp, resize and fit (rotate and the nested calls included) a    *)
(* filter the caller supplied is never destroyed; a filter the core        *)
(* created is destroyed at most once, after every use of it by a kernel    *)
(* worker, and exactly once when the operation is over.                    *)
(***************************************************************************)
C7_FilterLifetime ==
    \A id \in 1 .. Len(aHeap) :
        /\ (aHeap[id].owner = "caller" => LogPos("destroy", id) = {})
        /\ Cardinality(LogPos("destroy", id)) <= 1
        /\ \A i \in LogPos("use", id), j \in LogPos("destroy", id) : i < j
        /\ (aStack = <<>> /\ aHeap[id].owner = "core" =>
                Cardinality(LogPos("destroy", id)) = 1)

C7_Witness ==
    /\ aStack = <<>> /\ aCall.op = "fit" /\ aCall.by = "name" /\ ~aCall.exact
    /\ aRet = "true"
    /\ \E id \in 1 .. Len(aHeap) :
          /\ aHeap[id].owner = "core"
          /\ Cardinality(LogPos("use", id)) = ApiWorkers
          /\ LogPos("destroy", id) # {}

WarpRoiInferred ==
    /\ aCall.op = "warp" /\ ~RoiDefined(aCall.roi) /\ RoiDefined(aWork.roi)

C9_RoundTripContainsAll == RoiDefined(gOut) => RoiContainsXY(gOut, gR)

C9_Witness ==
    /\ RoiDefined(gOut) /\ gM.sx = 2 /\ gM.sy = 2
    /\ gOut.xbegin > gR.xbegin
    /\ RoiWidth(gR) # RoiHeight(gR)

(***************************************************************************)
(* Claims about the resize and resample kernels.                           *)
(***************************************************************************)
\* the tile and position of every pixel the workers have written so far
WrittenAt ==
    { <<t, TilePixel(tiles[t], k)>> :
        t \in 1 .. Len(tiles), k \in 0 .. TileSize(job.roi) - 1 } \cap
    UNION { { <<t, TilePixel(tiles[t], k)>> : k \in 0 .. cur[t] - 1 } :
              t \in 1 .. Len(tiles) }

IsConstant(img) == \A p, q \in DOMAIN img.px : img.px[p] = img.px[q]

\* the weights w = wy * xfiltval[i] the separable loop applies, row by row
AppliedWeights(ctx) ==
    [k \in 1 .. ctx.g.xtaps * ctx.g.ytaps |->
        RMul(ctx.yw[((k - 1) \div ctx.g.xtaps) + 1],
             ctx.xw[((k - 1) % ctx.g.xtaps) + 1])]

NonNegative(w, n) == \A i \in 1 .. n : RLe(RZero, w[i])

\* what the claim says of one output pixel, given its taps before
\* normalisation, the weights applied and the value written
ConvexAt(g, xraw, yraw, w, out) ==
    (/\ NonNegative(xraw, g.xtaps)
     /\ NonNegative(yraw, g.ytaps)
     /\ RSumFn(xraw, g.xtaps) # RZero
     /\ RSumFn(yraw, g.ytaps) # RZero) =>
    /\ NonNegative(w, g.xtaps * g.ytaps)
    /\ RSumFn(w, g.xtaps * g.ytaps) = ROne
    /\ IsConstant(job.src) => out = job.src.px[<<job.src.x, job.src.y>>]

ResizeGeomOfJob == resize_geom(job.src, job.dst0, job.filter)

\* C11: in resize with a separable filter whose taps are all non-negative,
\* the weights wy * wx applied for one output pixel are non-negative and sum
\* to 1 whenever the x and y tap sums are non-zero, so a constant source
\* gives the same constant in every output pixel, at every ratio and also
\* where the support extends past the source edge.
C11_ConvexCombination ==
    (phase \in {"kernel", "done"} /\ job.op = "resize"
     /\ FilterSeparable(job.filter)) =>
    \A a \in WrittenAt :
        ConvexAt(ResizeGeomOfJob,
                 resize_xtaps_raw(job.src, job.dst0, job.filter,
                                  ResizeGeomOfJob, a[2][1]),
                 resize_ytaps_raw(job.src, job.dst0, job.filter,
                                  ResizeGeomOfJob, a[2][2]),
                 AppliedWeights(resize_ctx(job.src, job.dst0, job.filter,
                                           tiles[a[1]], a[2][1], a[2][2],
                                           job.stale)),
                 dst.px[a[2]])

\* a constant source reduced to one pixel by a box of width 3, whose support
\* covers columns and rows outside the source, has come out as the constant
C11_Witness ==
    /\ phase = "done"
    /\ job.op = "resize"
    /\ IsConstant(job.src)
    /\ job.filter = Filter2D_create("box", R(3), R(3))
    /\ RoiWidth(job.roi) = 1
    /\ resize_geom(job.src, job.dst0, job.filter).radi > TileW
    /\ dst.px[<<0, 0>>] = <<R(5)>>

\* the destination's full window is the source's: ratio 1:1 on both axes
UnitRatioJob ==
    /\ job.op = "resize"
    /\ ImgRoiFull(job.dst0) = ImgRoiFull(job.src)

DstEqualsSrc ==
    \A p \in RoiPixels(job.roi) : dst.px[p] = IterPixel(job.src, p[1], p[2], "clamp")

\* the filter is non-zero at the offset (0, 0) and zero at every other
\* integer offset up to rad
FilterInterpolating(f, rad) ==
    \A i \in -rad .. rad, j \in -rad .. rad :
        (FilterEval(f, R(i), R(j)) # RZero) <=> (i = 0 /\ j = 0)

\* C12 as stated: resizing with the destination full window equal to the
\* source full window gives a copy of the source, every destination pixel
\* (x, y) being source pixel (x, y), for any filter passed to resize.
C12_UnitResizeCopiesAnyFilter ==
    (phase = "done" /\ UnitRatioJob) => DstEqualsSrc

\* C12 amended: resizing at ratio 1:1 gives a copy of the source when the
\* filter is non-zero at the offset (0, 0) and zero at every other integer
\* offset of its support, which box, triangle, lanczos3 and disk are at their
\* default widths and a box of width 3 or a triangle of width 4 is not.
C12_UnitResizeCopiesInterpolating ==
    (phase = "done" /\ UnitRatioJob
     /\ FilterInterpolating(job.filter, ResizeGeomOfJob.radi)) =>
    DstEqualsSrc

\* a 1:1 resize with lanczos3 of a source of distinct values, whose windows
\* start at column 1, has ended
C12_Witness ==
    /\ phase = "done"
    /\ UnitRatioJob
    /\ job.filter = FilterLanczos3
    /\ ~IsConstant(job.src)
    /\ job.src.full_x = 1
    /\ FilterInterpolating(job.filter, ResizeGeomOfJob.radi)
    /\ DstEqualsSrc

CentreJob(f) ==
    /\ phase = "done"
    /\ job.op = "resize"
    /\ job.src = CentreSource
    /\ RoiWidth(job.roi) = 1 /\ RoiHeight(job.roi) = 1
    /\ job.filter = f

\* the weights applied for the one output pixel, and how many are not zero
CentreWeights ==
    AppliedWeights(resize_ctx(job.src, job.dst0, job.filter, job.roi, 0, 0,
                              job.stale))
CentreNonZero(w) == Cardinality({ k \in DOMAIN w : w[k] # RZero })

\* C13 as stated: resizing the 3x3 source whose only non-zero pixel is the
\* centre (1.0) to 1x1 with the box filter at explicit width 3 yields 1/9.
C13_CentreBox3IsNinth ==
    CentreJob(Filter2D_create("box", R(3), R(3))) =>
        dst.px[<<0, 0>>] = <<RDiv(R(1), R(9))>>

\* C13 amended: with the box filter at explicit width 3 the output is 1/81:
\* the width is in destination pixels, so each axis has nine taps of weight
\* 1/9 over source columns -3 .. 5, read with the clamp wrap, and the centre
\* pixel is met once; the value 1/9, nine source pixels of weight 1/9 each, is
\* what the box filter at its default width 1 yields.
C13_CentreBoxByWidth ==
    /\ CentreJob(Filter2D_create("box", R(3), R(3))) =>
           /\ dst.px[<<0, 0>>] = <<RDiv(R(1), R(81))>>
           /\ CentreNonZero(CentreWeights) = 81
           /\ \A k \in DOMAIN CentreWeights :
                  CentreWeights[k] \in {RZero, RDiv(R(1), R(81))}
    /\ CentreJob(FilterBox) =>
           /\ dst.px[<<0, 0>>] = <<RDiv(R(1), R(9))>>
           /\ CentreNonZero(CentreWeights) = 9
           /\ \A k \in DOMAIN CentreWeights :
                  CentreWeights[k] \in {RZero, RDiv(R(1), R(9))}

\* the 3x3 to 1x1 resize with the box of width 3 has ended with 1/81
C13_Witness ==
    /\ CentreJob(Filter2D_create("box", R(3), R(3)))
    /\ ResizeGeomOfJob.xtaps = 11
    /\ dst.px[<<0, 0>>] = <<RDiv(R(1), R(81))>>

\* floor(srcf + (v - dstf + 0.5) * srcfsize / dstfsize)
NearestCoord(v, dstf, dstfsize, srcf, srcfsize) ==
    RFloor(RAdd(R(srcf),
                RDiv(RMul(RAdd(R(v - dstf), RHalf), R(srcfsize)), R(dstfsize))))

NearestSrcX(x) ==
    NearestCoord(x, job.dst0.full_x, job.dst0.full_width,
                 job.src.full_x, job.src.full_width)
NearestSrcY(y) ==
    NearestCoord(y, job.dst0.full_y, job.dst0.full_height,
                 job.src.full_y, job.src.full_height)

NearestRun ==
    /\ phase \in {"kernel", "done"}
    /\ job.op = "resample" /\ ~job.interpolate /\ ~job.src.deep

\* C14: resample with interpolate = false on a non-deep image writes to each
\* destination pixel (x, y) of the ROI the source pixel at
\* (floor(src_full_x + (x - dst_full_x + 0.5) * src_full_width / dst_full_width),
\*  floor(src_full_y + (y - dst_full_y + 0.5) * src_full_height / dst_full_height)),
\* black where that is outside the source; from 8x8 to 4x4 this is the source
\* pixel at (floor((x + 0.5) * 2), floor((y + 0.5) * 2)).
C14_NearestSourcePixel ==
    NearestRun =>
    \A a \in WrittenAt :
        /\ dst.px[a[2]] =
               IterPixel(job.src, NearestSrcX(a[2][1]), NearestSrcY(a[2][2]),
                         "black")
        /\ (job.src.full_width = 8 /\ job.dst0.full_width = 4) =>
               dst.px[a[2]] = job.src.px[<<2 * a[2][1] + 1, 2 * a[2][2] + 1>>]

\* the 8x8 to 4x4 resample has ended: pixel (3, 2) holds source pixel (7, 5)
C14_Witness ==
    /\ NearestRun
    /\ phase = "done"
    /\ job.src.full_width = 8 /\ job.dst0.full_width = 4
    /\ dst.px[<<3, 2>>] = job.src.px[<<7, 5>>]
    /\ dst.px[<<3, 2>>] = <<R(48)>>

(***************************************************************************)
(* Claims about fit.                                                       *)
(***************************************************************************)
\* a non-exact fit whose ROI argument is the source's full window has ended
FitOwnWindow ==
    /\ fPc = "done"
    /\ ~fIn.exact
    /\ fIn.roi = ImgRoiFull(fIn.src)

\* C15: fitting an image to its own full window with exact = false returns
\* the same image for every fillmode and every source geometry: the
\* destination's pixels, data window and full window equal the source's, also
\* when the source's full-window or data-window origin is not zero.
C15_FitOwnWindowIsCopy ==
    FitOwnWindow => fDst = fIn.src

\* a source whose windows start at column 1 was fitted to its own full
\* window: the pixels were copied, and the data window starts at column 0
C15_Witness ==
    /\ FitOwnWindow
    /\ fIn.src.x = 1 /\ fIn.src.full_x = 1
    /\ fDst.full_x = 1
    /\ fDst.x = 0
    /\ \A p \in RoiPixels(ImgRoi(fIn.src)) :
           fDst.px[<<p[1] - 1, p[2]>>] = fIn.src.px[p]

FitNonExactDone == fPc = "done" /\ ~fIn.exact

\* C16: after a non-exact fit the destination's full window is the target
\* ROI and the resized data window is centred in it:
\* data x = full_x + (target_width - resize_width) / 2 and
\* data y = full_y + (target_height - resize_height) / 2 (integer division),
\* for every origin of the target ROI.
C16_FitDataWindowCentred ==
    FitNonExactDone =>
        /\ ImgRoiFull(fDst) = fGeo.roi
        /\ fDst.x = fDst.full_x
                    + IDivTrunc(RoiWidth(fGeo.roi) - fDst.width, 2)
        /\ fDst.y = fDst.full_y
                    + IDivTrunc(RoiHeight(fGeo.roi) - fDst.height, 2)

\* a non-exact fit into a target window that starts at column 1 and is wider
\* than the resized image has ended with the data window at the bare offset
C16_Witness ==
    /\ FitNonExactDone
    /\ fGeo.roi.xbegin = 1
    /\ fGeo.xoffset > 0
    /\ ImgRoiFull(fDst) = fGeo.roi
    /\ fDst.x = fGeo.xoffset
    /\ fDst.x < fDst.full_x + fGeo.xoffset

\* n = int(num / den + 0.5f) for positive num and den
IsRounded(n, num, den) ==
    /\ 2 * n * den <= 2 * num + den
    /\ 2 * num + den < 2 * (n + 1) * den

\* C17: fit treats any fill mode other than "height" and "width" as
\* letterbox; letterbox becomes height when the target aspect is >= the
\* source full-window aspect and width otherwise; height gives resize width =
\* round(target_height * source_aspect), the height unchanged and scale =
\* target_height / src_full_height; width gives resize height =
\* round(target_width / source_aspect), the width unchanged and scale =
\* target_width / src_full_width.
C17_FillModeResolution ==
    (fPc \in {"filter", "branch", "specmod", "done"}) =>
    LET sw == fIn.src.full_width
        sh == fIn.src.full_height
        tw == RoiWidth(fGeo.roi)
        th == RoiHeight(fGeo.roi)
        mode == IF fIn.fillmode \in {"height", "width"} THEN fIn.fillmode
                ELSE IF tw * sh >= sw * th THEN "height" ELSE "width"
    IN  /\ fGeo.fillmode = mode
        /\ mode = "height" =>
               /\ IsRounded(fGeo.resize_full_width, th * sw, sh)
               /\ fGeo.resize_full_height = th
               /\ RMul(fGeo.scale, R(sh)) = R(th)
        /\ mode = "width" =>
               /\ IsRounded(fGeo.resize_full_height, tw * sh, sw)
               /\ fGeo.resize_full_width = tw
               /\ RMul(fGeo.scale, R(sw)) = R(tw)

\* a fit with an unknown fill mode and a target narrower than the source has
\* ended: the mode resolved to width and the resize height is below the target's
C17_Witness ==
    /\ fPc = "done"
    /\ fIn.fillmode = "stretch"
    /\ fGeo.fillmode = "width"
    /\ fGeo.resize_full_height < fGeo.fit_full_height
    /\ fGeo.resize_full_width = fGeo.fit_full_width

(***************************************************************************)
(* get_resize_filter as resize and fit call it with a filter name.         *)
(***************************************************************************)
\* a width scaled by the inverse of the ratio
get_resize_filter_width_inverse(fdwidth, fwidth, ratio) ==
    IF RLt(RZero, fwidth) THEN fwidth
    ELSE RMul(R(fdwidth), RMax(ROne, RDiv(ROne, ratio)))

\* a width scaled by the ratio whatever it is
get_resize_filter_width_scaled(fdwidth, fwidth, ratio) ==
    IF RLt(RZero, fwidth) THEN fwidth ELSE RMul(R(fdwidth), ratio)

\* fwidth > 0.0f ? fwidth : fd.width * std::max(1.0f, ratio)
get_resize_filter_width(fdwidth, fwidth, ratio) ==
    IF RLt(RZero, fwidth) THEN fwidth
    ELSE RMul(R(fdwidth), RMax(ROne, ratio))

\* the name get_resize_filter searches for
get_resize_filter_name(filtername, wratio, hratio) ==
    IF filtername = ""
    THEN (IF RLt(ROne, wratio) \/ RLt(ROne, hratio)
          THEN "blackman-harris" ELSE "lanczos3")
    ELSE filtername

SelNames ==
    { "", "box", "triangle", "blackman-harris", "lanczos3", "disk", "nosuch" }
SelWidths == { RZero, R(-1), R(3) }
SelSizes == { <<TileW, TileH>>, <<TileH, TileW>> }
SelDstSizes ==
    { <<w, h>> : w \in {1, TileW, 2 * TileW}, h \in {1, TileH, TileH + 1} }

SelCalls ==
    { [caller |-> c, filtername |-> n, fwidth |-> fw,
       src_full_width |-> s[1], src_full_height |-> s[2],
       dst_full_width |-> d[1], dst_full_height |-> d[2]] :
        c \in {"resize", "fit"}, n \in SelNames, fw \in SelWidths,
        s \in SelSizes, d \in SelDstSizes }

SelInit ==
    /\ GeomIdle /\ TileIdle /\ ApiIdle /\ FitIdle /\ RotIdle
    /\ sIn \in SelCalls
    /\ sPc = "ratios"
    /\ sRatio = <<>>
    /\ sName = sIn.filtername
    /\ sI = 0
    /\ sFilter = NoFilter
    /\ sErr = <<>>

SelOther == UNCHANGED <<geomVars, tileVars, apiVars, fitVars, rotVars, sIn>>

\* resize, lines 676-677, and fit, lines 838-839
SelRatios ==
    /\ sPc = "ratios"
    /\ sRatio' = <<RDiv(R(sIn.dst_full_width), R(sIn.src_full_width)),
                   RDiv(R(sIn.dst_full_height), R(sIn.src_full_height))>>
    /\ sPc' = "name"
    /\ UNCHANGED <<sName, sI, sFilter, sErr>>
    /\ SelOther

\* lines 603-609
SelDefaultName ==
    /\ sPc = "name"
    /\ sName' = get_resize_filter_name(sName, sRatio[1], sRatio[2])
    /\ sPc' = "search"
    /\ UNCHANGED <<sRatio, sI, sFilter, sErr>>
    /\ SelOther

\* lines 610-613: a descriptor of another name
SelSkip ==
    /\ sPc = "search"
    /\ sI < Len(FilterDescs)
    /\ FilterDescs[sI + 1].name # sName
    /\ sI' = sI + 1
    /\ UNCHANGED <<sPc, sRatio, sName, sFilter, sErr>>
    /\ SelOther

\* lines 613-620: the descriptor of the name; create and break
SelCreate ==
    /\ sPc = "search"
    /\ sI < Len(FilterDescs)
    /\ FilterDescs[sI + 1].name = sName
    /\ sFilter' = Filter2D_create(sName,
           get_resize_filter_width(FilterDescs[sI + 1].width, sIn.fwidth,
                                   sRatio[1]),
           get_resize_filter_width(FilterDescs[sI + 1].width, sIn.fwidth,
                                   sRatio[2]))
    /\ sPc' = "done"
    /\ UNCHANGED <<sRatio, sName, sI, sErr>>
    /\ SelOther

\* lines 623-626: no descriptor matched
SelNotFound ==
    /\ sPc = "search"
    /\ sI = Len(FilterDescs)
    /\ sErr' = Append(sErr, MsgUnknownFilter)
    /\ sPc' = "done"
    /\ UNCHANGED <<sRatio, sName, sI, sFilter>>
    /\ SelOther

SelNext ==
    \/ SelRatios
    \/ SelDefaultName
    \/ SelSkip
    \/ SelCreate
    \/ SelNotFound

SpecSel == SelInit /\ [][SelNext]_vars

(***************************************************************************)
(* Claims about the filter selection.                                      *)
(***************************************************************************)
\* the registry's default widths
NominalWidth(name) ==
    CASE name = "box" -> 1
      [] name = "triangle" -> 2
      [] name = "blackman-harris" -> 3
      [] name = "lanczos3" -> 6
      [] name = "disk" -> 1
      [] OTHER -> 0

SelCreated == sPc = "done" /\ sFilter # NoFilter

\* default_width * max(1, dstfull / srcfull)
WidenedByRatio(name, dstfull, srcfull) ==
    IF dstfull > srcfull
    THEN RDiv(R(NominalWidth(name) * dstfull), R(srcfull))
    ELSE R(NominalWidth(name))

\* C18: when resize or fit is called with a filter name but no explicit
\* width (width <= 0), the created filter's width on each axis is
\* default_width * max(1, ratio_axis) with ratio = dst_full / src_full; when
\* no name is given the name is blackman-harris if either ratio > 1 and
\* lanczos3 otherwise; an explicit width > 0 is used unchanged on both axes.
C18_SelectedFilter ==
    SelCreated =>
        /\ sIn.filtername # "" => sFilter.name = sIn.filtername
        /\ sIn.filtername = "" =>
               sFilter.name =
                   IF \/ sIn.dst_full_width > sIn.src_full_width
                      \/ sIn.dst_full_height > sIn.src_full_height
                   THEN "blackman-harris" ELSE "lanczos3"
        /\ RLe(sIn.fwidth, RZero) =>
               /\ sFilter.w = WidenedByRatio(sFilter.name, sIn.dst_full_width,
                                             sIn.src_full_width)
               /\ sFilter.h = WidenedByRatio(sFilter.name, sIn.dst_full_height,
                                             sIn.src_full_height)
        /\ RLt(RZero, sIn.fwidth) =>
               sFilter.w = sIn.fwidth /\ sFilter.h = sIn.fwidth

\* resize by name from 3x2 to 6x1 with "triangle" and no width: the filter
\* created is 4 wide and 2 high
C18_Witness ==
    /\ SelCreated
    /\ sIn.filtername = "triangle"
    /\ sIn.fwidth = RZero
    /\ sIn.dst_full_width = 2 * sIn.src_full_width
    /\ sIn.dst_full_height < sIn.src_full_height
    /\ sFilter = Filter2D_create("triangle", R(4), R(2))

\* a named filter, no explicit width, and fewer destination columns than
\* source columns
SelDownsampledX ==
    /\ SelCreated
    /\ sIn.filtername # ""
    /\ RLe(sIn.fwidth, RZero)
    /\ sIn.dst_full_width < sIn.src_full_width

\* C19 as stated: when downsampling on an axis with a named filter and no
\* explicit width, the created filter's width on that axis is the default
\* width multiplied by max(1, 1 / ratio), strictly larger than the default.
C19_DownsampleWidensFilter ==
    SelDownsampledX =>
        /\ sFilter.w = RDiv(R(NominalWidth(sFilter.name) * sIn.src_full_width),
                            R(sIn.dst_full_width))
        /\ RLt(R(NominalWidth(sFilter.name)), sFilter.w)

\* C19 amended: when downsampling on an axis with a named filter and no
\* explicit width, the created filter's width on that axis is the default
\* width, the multiplier max(1, ratio) being 1; the selector widens the
\* filter, by the ratio, on an axis that is upsampled.
C19_DownsampleKeepsDefaultWidth ==
    /\ SelDownsampledX => sFilter.w = R(NominalWidth(sFilter.name))
    /\ (SelCreated /\ sIn.filtername # "" /\ RLe(sIn.fwidth, RZero)
        /\ sIn.dst_full_width > sIn.src_full_width) =>
           /\ RLt(R(NominalWidth(sFilter.name)), sFilter.w)
           /\ RMul(sFilter.w, R(sIn.src_full_width)) =
                  R(NominalWidth(sFilter.name) * sIn.dst_full_width)

\* "lanczos3" with no width, from 3 columns to 1: the filter is 6 wide
C19_Witness ==
    /\ SelDownsampledX
    /\ sIn.filtername = "lanczos3"
    /\ sIn.dst_full_width = 1
    /\ sFilter.w = R(6)

(***************************************************************************)
(* rotate(): the centre, the matrix and the call of warp.                  *)
(***************************************************************************)
\* Imath M33f::translate(t): the translation is applied before M
M33TranslateBy(M, tx, ty) == M33Mul(M33Translate(tx, ty), M)

\* Imath M33f::setRotation(r), given cos(r) and sin(r)
M33Rotation(c, s) == M33(c, s, RZero, RNeg(s), c, RZero, RZero, RZero, ROne)

\* Imath M33f::rotate(r): the rotation is applied after M
M33RotateBy(M, c, s) == M33Mul(M, M33Rotation(c, s))

\* the matrix with the two translations exchanged
rotate_matrix_exchanged(cs, center_x, center_y) ==
    M33Mul(M33RotateBy(M33TranslateBy(M33Identity, center_x, center_y),
                       cs[1], cs[2]),
           M33TranslateBy(M33Identity, RNeg(center_x), RNeg(center_y)))

\* lines 349-352, the angle given by its cosine and sine
rotate_matrix(cs, center_x, center_y) ==
    M33Mul(M33RotateBy(M33TranslateBy(M33Identity, RNeg(center_x),
                                      RNeg(center_y)),
                       cs[1], cs[2]),
           M33TranslateBy(M33Identity, center_x, center_y))

\* lines 1066-1068
rotate_default_center(src_roi_full) ==
    <<RMul(RHalf, R(src_roi_full.xbegin + src_roi_full.xend)),
      RMul(RHalf, R(src_roi_full.ybegin + src_roi_full.yend))>>

\* angles whose cosine and sine are rational: the quarter turns and the
\* angles of the 3-4-5 triangle
RotAngles ==
    { <<ROne, RZero>>, <<RZero, ROne>>, <<R(-1), RZero>>, <<RZero, R(-1)>>,
      <<RDiv(R(3), R(5)), RDiv(R(4), R(5))>>,
      <<RDiv(R(4), R(5)), RDiv(R(-3), R(5))>> }

RotCenters ==
    { <<RDiv(R(a), R(2)), RDiv(R(b), R(2))>> : a \in 0 .. TileW, b \in {0, 1, TileH} }

RotFullWindows ==
    { ROI(xb, xb + d[1], yb, yb + d[2], 0, 1) :
        xb \in {0, 1}, yb \in {0, -1},
        d \in { <<TileW, TileH>>, <<TileH, TileW>> } }

RotCalls ==
    { [angle |-> a, hasCenter |-> hc, center |-> c, src_roi_full |-> f,
       by |-> by, recompute_roi |-> rr] :
        a \in RotAngles, hc \in BOOLEAN, c \in RotCenters,
        f \in RotFullWindows, by \in {"ptr", "name"}, rr \in BOOLEAN }

RotInit ==
    /\ GeomIdle /\ TileIdle /\ ApiIdle /\ FitIdle /\ SelIdle
    /\ rIn \in { c \in RotCalls : c.hasCenter \/ c.center = <<RZero, RZero>> }
    /\ rPc = "enter"
    /\ rCenter = <<>>
    /\ rWarp = <<>>

RotOther == UNCHANGED <<geomVars, tileVars, apiVars, fitVars, selVars, rIn>>

\* the overloads without a centre, lines 1062-1072 and 1076-1086
RotateDefaultCenter ==
    /\ rPc = "enter"
    /\ ~rIn.hasCenter
    /\ rCenter' = rotate_default_center(rIn.src_roi_full)
    /\ rPc' = "matrix"
    /\ UNCHANGED rWarp
    /\ RotOther

\* the overloads with a centre, entered by the caller
RotateGivenCenter ==
    /\ rPc = "enter"
    /\ rIn.hasCenter
    /\ rCenter' = rIn.center
    /\ rPc' = "matrix"
    /\ UNCHANGED rWarp
    /\ RotOther

\* lines 347-359 and 1044-1058: the matrix, and warp called with it
RotateCallWarp ==
    /\ rPc = "matrix"
    /\ rWarp' = [M |-> rotate_matrix(rIn.angle, rCenter[1], rCenter[2]),
                 by |-> rIn.by, recompute_roi |-> rIn.recompute_roi,
                 wrap |-> "black"]
    /\ rPc' = "warp"
    /\ UNCHANGED rCenter
    /\ RotOther

RotNext ==
    \/ RotateDefaultCenter
    \/ RotateGivenCenter
    \/ RotateCallWarp

SpecRot == RotInit /\ [][RotNext]_vars

(***************************************************************************)
(* Claims about rotate.                                                    *)
(***************************************************************************)
\* a point of the plane after the translation by -c, the rotation about the
\* origin and the translation by c
RotatedAbout(p, cs, c) ==
    LET x == RSub(p[1], c[1])
        y == RSub(p[2], c[2])
    IN  <<RAdd(RSub(RMul(x, cs[1]), RMul(y, cs[2])), c[1]),
          RAdd(RAdd(RMul(x, cs[2]), RMul(y, cs[1])), c[2])>>

RotProbes == { <<R(a), R(b)>> : a \in {0, 1, TileW}, b \in {0, TileH} }

\* C20: rotate is warp with M = translate(-c), then rotate(angle), then
\* translate(c), and wrap mode Black; the rotation leaves the point c fixed;
\* and when no centre is given c is the centre of the source full window,
\* (0.5 * (xbegin + xend), 0.5 * (ybegin + yend)).
C20_RotateIsWarpAboutCentre ==
    (rPc = "warp") =>
        /\ rWarp.wrap = "black"
        /\ rWarp.by = rIn.by /\ rWarp.recompute_roi = rIn.recompute_roi
        /\ \A p \in RotProbes :
               multVecMatrix(rWarp.M, p) = RotatedAbout(p, rIn.angle, rCenter)
        /\ multVecMatrix(rWarp.M, rCenter) = rCenter
        /\ ~rIn.hasCenter =>
               /\ RMul(R(2), rCenter[1]) =
                      R(rIn.src_roi_full.xbegin + rIn.src_roi_full.xend)
               /\ RMul(R(2), rCenter[2]) =
                      R(rIn.src_roi_full.ybegin + rIn.src_roi_full.yend)
        /\ rIn.hasCenter => rCenter = rIn.center

\* a quarter turn with no centre given of a source whose full window starts
\* at (1, -1): warp is called with a matrix that is not a rotation about the
\* origin and that fixes the centre of that window
C20_Witness ==
    /\ rPc = "warp"
    /\ ~rIn.hasCenter
    /\ rIn.angle = <<RZero, ROne>>
    /\ rIn.src_roi_full.xbegin = 1 /\ rIn.src_roi_full.ybegin = -1
    /\ rCenter # <<RZero, RZero>>
    /\ rWarp.M # M33Rotation(RZero, ROne)
    /\ multVecMatrix(rWarp.M, rCenter) = rCenter

(***************************************************************************)
(* The source iterator of resize_ and the taps it is read at.              *)
(***************************************************************************)
\* the rectangle [src_x - radi, src_x + radi] x [src_y - radj, src_y + radj]
SupportRect(ctx) ==
    IterRange(ctx.src_x - ctx.g.radi, ctx.src_x + ctx.g.radi + 1,
              ctx.src_y - ctx.g.radj, ctx.src_y + ctx.g.radj + 1)

\* the loops over the taps run for this pixel
LoopsRun(ctx) ==
    FilterSeparable(ctx.filter) => RSumFn(ctx.xw, ctx.g.xtaps) # RZero

TapsPaired(ctx, v) ==
    /\ ctx.rng = SupportRect(ctx)
    /\ \A n \in 1 .. Len(v.taps) :
          /\ ~v.taps[n].p.done
          /\ v.taps[n].p.x = ctx.src_x + v.taps[n].i
          /\ v.taps[n].p.y = ctx.src_y + v.taps[n].j
    /\ v.p.done

\* the context of the pixel tile t wrote last
LastCtx(t) ==
    LET p == TilePixel(tiles[t], cur[t] - 1)
    IN  resize_ctx(job.src, job.dst0, job.filter, tiles[t], p[1], p[2],
                   job.stale)

\* C21: in resize, with a separable and with a non-separable filter, for
\* every output pixel written the source iterator ranges over the rectangle
\* [src_x - radi, src_x + radi] x [src_y - radj, src_y + radj], every tap
\* (i, j) applied reads the iterator at source pixel (src_x + i, src_y + j)
\* while it is not done, and the iterator is done when the loops end, also
\* when radi # radj.
C21_TapsPairedWithSupport ==
    \A t \in 1 .. Len(tiles) :
        (phase # "idle" /\ job.op = "resize" /\ cur[t] > 0)
        => LET ctx == LastCtx(t)
           IN  LoopsRun(ctx)
               => TapsPaired(ctx, resize_visits(ctx, IterRerange(ctx.rng), 1,
                                                <<>>))

\* a pixel written by the non-separable path with radi # radj
C21_Witness ==
    /\ phase = "kernel" /\ job.op = "resize" /\ cur[1] > 0
    /\ ~FilterSeparable(job.filter)
    /\ LastCtx(1).g.radi # LastCtx(1).g.radj

(***************************************************************************)
(* The rows of zero weight the separable path skips.                       *)
(***************************************************************************)
\* the loop state before row j (from 1) of the separable loop
RECURSIVE RowStart(_, _)
RowStart(ctx, j) ==
    IF j = 1 THEN resize_start(ctx)
    ELSE resize_sep_row(ctx, RowStart(ctx, j - 1), j - 1)

\* pel[] when every row, of zero weight or not, is iterated tap by tap
RECURSIVE EveryRowIterated(_, _, _)
EveryRowIterated(ctx, st, j) ==
    IF j > ctx.g.ytaps THEN st
    ELSE EveryRowIterated(ctx, resize_sep_taps(ctx, st, ctx.yw[j], 1), j + 1)

RowsInStep(ctx) ==
    /\ \A j \in 1 .. ctx.g.ytaps :
          LET p == RowStart(ctx, j).p
          IN  /\ ~p.done
              /\ p.x = ctx.src_x - ctx.g.radi
              /\ p.y = ctx.src_y + (j - 1 - ctx.g.radj)
    /\ resize_loops(ctx).pel
         = EveryRowIterated(ctx, resize_start(ctx), 1).pel

\* C22: in the separable path of resize, before every row j of the taps
\* (after the row before it was skipped for its zero weight, or iterated) the
\* source iterator is at the first pixel (src_x - radi) of row src_y + j, and
\* the accumulated pixel is the one that iterating every row gives.
C22_ZeroRowSkipKeepsResult ==
    \A t \in 1 .. Len(tiles) :
        (phase # "idle" /\ job.op = "resize" /\ cur[t] > 0
         /\ FilterSeparable(job.filter))
        => LET ctx == LastCtx(t)
           IN  LoopsRun(ctx) => RowsInStep(ctx)

\* a pixel written whose taps have a row of zero weight between rows of
\* non-zero weight, at radi # radj
C22_Witness ==
    /\ phase = "kernel" /\ job.op = "resize" /\ cur[1] > 0
    /\ FilterSeparable(job.filter)
    /\ LET ctx == LastCtx(1)
       IN  /\ LoopsRun(ctx)
           /\ ctx.g.radi # ctx.g.radj
           /\ \E j \in 1 .. ctx.g.ytaps - 1 :
                 ctx.yw[j] = RZero /\ ctx.yw[j + 1] # RZero

(***************************************************************************)
(* The workers of the tile kernels and what they write.                    *)
(***************************************************************************)
\* the tiles whose worker has written pixel p
WritersOf(p) ==
    { t \in 1 .. Len(tiles) :
        \E k \in 0 .. cur[t] - 1 : TilePixel(tiles[t], k) = p }

\* the step of one worker: one pixel of its own tile, nothing else
WorkerWritesOwnPixel(t) ==
    LET p == TilePixel(tiles[t], cur[t])
    IN  /\ cur' = [cur EXCEPT ![t] = @ + 1]
        /\ RoiContainsXY(tiles[t], ROI(p[1], p[1] + 1, p[2], p[2] + 1, 0, 1))
        /\ \A u \in 1 .. Len(tiles) :
              u # t => p \notin RoiPixels(tiles[u])
        /\ \A q \in DOMAIN dst.px :
              q # p => /\ dst'.px[q] = dst.px[q]
                       /\ dst'.samples[q] = dst.samples[q]
        /\ DOMAIN dst'.px = DOMAIN dst.px

\* C23: while the tile kernels of warp, resize and resample run, a step of
\* a worker changes nothing but one destination pixel inside its own tile (a
\* pixel of no other worker's tile); the source, the filter and the tiles
\* are never written; and when the kernels have returned every destination
\* pixel of the ROI has been written by exactly one worker.
C23_WorkersShareNothing ==
    [][ /\ job' = job /\ tiles' = tiles
        /\ (phase = "kernel" /\ phase' = "kernel")
           => \E t \in 1 .. Len(tiles) : WorkerWritesOwnPixel(t)
        /\ phase' = "done"
           => \A p \in RoiPixels(job.roi) : Cardinality(WritersOf(p)) = 1 ]_vars

\* two workers, each of which has written a pixel, when the kernels return
C23_Witness ==
    /\ phase = "done" /\ Len(tiles) = 2
    /\ job.op \in {"warp", "resize", "resample"}
    /\ \A t \in 1 .. 2 : cur[t] > 0

(***************************************************************************)
(* The sampler's footprint under the edge clamp.                           *)
(***************************************************************************)
\* the footprint of the destination pixel p of the warp job, with the edge
\* clamp as given
FootprintAt(p, edgeclamp) ==
    LET q == warp_source_point(job.M, p[1], p[2])
    IN  filtered_footprint(job.src, q[1].val, q[2].val, q[1].dx, q[2].dx,
                           q[1].dy, q[2].dy, job.filter, edgeclamp)

EdgeClamped(p) ==
    LET fp  == FootprintAt(p, TRUE)
        raw == FootprintAt(p, FALSE)
        window == RoiPixels(ImgRoi(job.src))
    IN  /\ filtered_reads(fp) \subseteq window
        /\ filtered_reads(fp) = filtered_reads(raw) \cap window
        /\ filtered_iter_wrap(job.wrap, TRUE) = job.wrap
        /\ filtered_reads(fp) = {}
           => \A c \in job.roi.chbegin + 1 .. job.roi.chend :
                 dst.px[p][c] = RZero

\* C24: with edgeclamp, for every pixel the warp has written, the source
\* pixels the sampler's iterator visits are those of the unclamped support
\* rectangle that lie in the source data window [xbegin, xend) x
\* [ybegin, yend), the iterator is given the caller's wrap mode, and a pixel
\* whose clamped rectangle is empty is written as zeros.
C24_EdgeClampStaysInWindow ==
    \A t \in 1 .. Len(tiles) :
        (phase # "idle" /\ job.op = "warp" /\ job.edgeclamp /\ cur[t] > 0)
        => EdgeClamped(TilePixel(tiles[t], cur[t] - 1))

\* a pixel written under edgeclamp whose support rectangle was cut by the
\* clamp, and one whose clamped rectangle is empty
C24_Witness ==
    /\ phase = "kernel" /\ job.op = "warp" /\ job.edgeclamp /\ cur[1] > 1
    /\ LET p == TilePixel(tiles[1], cur[1] - 1)
           q == TilePixel(tiles[1], cur[1] - 2)
       IN  /\ filtered_reads(FootprintAt(p, TRUE)) # {}
           /\ filtered_reads(FootprintAt(p, TRUE))
                # filtered_reads(FootprintAt(p, FALSE))
           /\ filtered_reads(FootprintAt(q, TRUE)) = {}

(***************************************************************************)
(* The radii of the sampler's footprint.                                   *)
(***************************************************************************)
FootprintByWidthAndHeight(p) ==
    LET q  == warp_source_point(job.M, p[1], p[2])
        fp == FootprintAt(p, FALSE)
        rs == RMul(RMul(RHalf, fp.ds), job.filter.w)
        rt == RMul(RMul(RHalf, fp.dt), job.filter.h)
    IN  /\ fp.smin = RFloor(RSub(q[1].val, rs))
        /\ fp.smax = RCeil(RAdd(q[1].val, rs))
        /\ fp.tmin = RFloor(RSub(q[2].val, rt))
        /\ fp.tmax = RCeil(RAdd(q[2].val, rt))

\* C25: for every pixel the warp has written without edgeclamp, the
\* sampler's footprint spans floor(s - rs) to ceil(s + rs) horizontally with
\* rs = 0.5 * ds * filter.width and floor(t - rt) to ceil(t + rt) vertically
\* with rt = 0.5 * dt * filter.height.
C25_FootprintRadii ==
    \A t \in 1 .. Len(tiles) :
        (phase # "idle" /\ job.op = "warp" /\ ~job.edgeclamp /\ cur[t] > 0)
        => FootprintByWidthAndHeight(TilePixel(tiles[t], cur[t] - 1))

\* a pixel warped with a filter whose height is not its width
C25_Witness ==
    /\ phase = "kernel" /\ job.op = "warp" /\ ~job.edgeclamp /\ cur[1] > 0
    /\ job.filter.w # job.filter.h

(***************************************************************************)
(* Non-exact fit: copy or resize.                                          *)
(***************************************************************************)
\* the computed resize size is the source's full size and the target's
\* origin is the source's full-window origin
FitNothingToResize ==
    /\ fGeo.resize_full_width = fIn.src.full_width
    /\ fGeo.resize_full_height = fIn.src.full_height
    /\ fGeo.fit_full_x = fIn.src.full_x
    /\ fGeo.fit_full_y = fIn.src.full_y

FitResizeWindow ==
    ROI(fGeo.fit_full_x, fGeo.fit_full_x + fGeo.resize_full_width,
        fGeo.fit_full_y, fGeo.fit_full_y + fGeo.resize_full_height, 0, 1)

\* C26: the step non-exact fit takes once the geometry and the filter are
\* known leaves the destination a copy of the source if and only if the
\* resize width and height equal the source's full-window width and height
\* and the target origin equals the source's full-window origin; in every
\* other case the destination is the source resized into the data and full
\* window [fit_x, fit_x + resize_w) x [fit_y, fit_y + resize_h).
C26_FitCopiesIffNothingToResize ==
    [][ (fPc = "branch" /\ ~fIn.exact)
        => IF FitNothingToResize
           THEN fDst' = fIn.src
           ELSE /\ fDst' # fIn.src
                /\ ImgRoi(fDst') = [FitResizeWindow EXCEPT
                                       !.chend = fIn.src.nchannels]
                /\ ImgRoiFull(fDst') = ImgRoi(fDst')
                /\ \A p \in RoiPixels(FitResizeWindow) :
                      fDst'.px[p] = resize_pixel(fIn.src, fDst', fFilter,
                                                 FitResizeWindow, p[1], p[2],
                                                 R(7)) ]_vars

\* non-exact fit has copied the source
C26_Witness ==
    /\ fPc = "specmod" /\ ~fIn.exact
    /\ FitNothingToResize
    /\ fDst = fIn.src

(***************************************************************************)
(* Exact fit's warp, and the edge clamp of the public warps.               *)
(***************************************************************************)
\* exact fit has run on images: the destination is the warp, under edgeclamp
\* with black wrap and the scale-and-offset matrix, into a buffer whose data
\* and full window are the target
ExactFitWarped ==
    LET target == fGeo.roi
        M == M33(fGeo.scale, RZero, RZero,
                 RZero, fGeo.scale, RZero,
                 fGeo.xoff, fGeo.yoff, ROne)
    IN  /\ ImgRoi(fDst) = [target EXCEPT !.chend = fIn.src.nchannels]
        /\ ImgRoiFull(fDst) = ImgRoi(fDst)
        /\ \A p \in RoiPixels(target) :
              fDst.px[p] = warp_pixel(BlackPixel(fIn.src.nchannels), fIn.src,
                                      M, fFilter, "black", TRUE, target,
                                      p[1], p[2])

\* the frames of warp_impl: under fit with black wrap and edgeclamp, under
\* warp and rotate without edgeclamp
WarpFramesClamp ==
    \A i \in 1 .. Len(aStack) :
        aStack[i].fn = "warp_impl"
        => IF i > 1 /\ aStack[i - 1].fn = "fit"
           THEN /\ aCall.exact
                /\ aStack[i].wrap = "black" /\ aStack[i].edgeclamp
                /\ aStack[i].pc = "prep" => aDst.roi = aStack[i - 1].roi
           ELSE /\ aCall.op \in {"warp", "rotate"}
                /\ ~aStack[i].edgeclamp

\* C27: when exact fit has returned, the destination's data window and full
\* window are the target ROI and its pixels are the warp of the source by
\* the matrix (scale, 0, 0; 0, scale, 0; xoff, yoff, 1) with wrap black and
\* edgeclamp true; every call of warp_impl made on behalf of fit has wrap
\* black and edgeclamp true, and every call made on behalf of a public warp
\* or rotate entry point, down to the kernel, has edgeclamp false.
C27_ExactFitClampsPublicWarpDoesNot ==
    /\ (fPc = "done" /\ fIn.exact) => ExactFitWarped
    /\ WarpFramesClamp

\* exact fit returned with a target larger than the source
C27_Witness ==
    /\ fPc = "done" /\ fIn.exact /\ fOk
    /\ RoiWidth(fGeo.roi) > fIn.src.full_width
    /\ fGeo.xoff # RZero

(***************************************************************************)
(* What the kernels leave alone.                                           *)
(***************************************************************************)
\* channel c (from 1) of pixel q is one the ROI of the job names
InRoiOfJob(q, c) ==
    /\ q \in RoiPixels(job.roi)
    /\ job.roi.chbegin < c /\ c <= job.roi.chend

\* C28: a step of the warp, resize or non-deep resample kernel changes no
\* destination value other than channels [roi.chbegin, roi.chend) of pixels
\* inside the ROI, and leaves the source as it was.
C28_OnlyRoiChannelsWritten ==
    [][ (phase = "kernel" /\ ~dst.deep)
        => /\ job' = job
           /\ DOMAIN dst'.px = DOMAIN dst.px
           /\ \A q \in DOMAIN dst.px :
                 \A c \in 1 .. dst.nchannels :
                    dst'.px[q][c] # dst.px[q][c] => InRoiOfJob(q, c) ]_vars

\* a pixel written by resize in a job whose ROI names fewer channels than
\* the destination has and fewer pixels than its data window
C28_Witness ==
    /\ phase = "kernel" /\ cur[1] > 0 /\ ~dst.deep
    /\ job.op = "resize"
    /\ job.roi.chend < dst.nchannels
    /\ job.src.nchannels = dst.nchannels
    /\ RoiPixels(job.roi) # DOMAIN dst.px
    /\ dst # job.dst0

(***************************************************************************)
(* Channel indices and the sizes of the per-pixel buffers.                 *)
(***************************************************************************)
\* C29: for every pixel a kernel has written, in warp the entries of
\* result[] the sampler stores to lie within the scratch pixel pel[] of
\* dst.nchannels entries, and in resize the channels read of a source pixel
\* lie within the source's channels, whatever the channel counts of the
\* source and of an initialized destination.
C29_ChannelIndicesInBounds ==
    \A t \in 1 .. Len(tiles) :
        (phase # "idle" /\ cur[t] > 0)
        => /\ job.op = "warp"
              => filtered_result_indices(job.src)
                   \subseteq 1 .. warp_scratch_size(dst)
           /\ job.op = "resize"
              => resize_src_channels(dst) \subseteq 1 .. job.src.nchannels

\* a pixel written by warp or resize with a destination whose channel count
\* is not the source's
C29_Witness ==
    /\ phase = "kernel" /\ cur[1] > 0
    /\ job.op \in {"warp", "resize"}
    /\ job.src.nchannels # dst.nchannels

(***************************************************************************)
(* Letterbox: the resized image inside the target window.                  *)
(***************************************************************************)
\* C30: once fit has computed its sizes for fill mode "letterbox" or for a
\* fill mode it does not know, resize_full_width <= fit_full_width and
\* resize_full_height <= fit_full_height, and xoffset >= 0 and yoffset >= 0,
\* for every full-window size of the source and every size of the target.
C30_LetterboxWithinTarget ==
    (fPc = "filter" /\ fIn.fillmode \notin {"height", "width"})
    => /\ fGeo.resize_full_width <= fGeo.fit_full_width
       /\ fGeo.resize_full_height <= fGeo.fit_full_height
       /\ fGeo.xoffset >= 0
       /\ fGeo.yoffset >= 0

\* sizes computed for an unknown fill mode with a width a float cannot hold
C30_Witness ==
    /\ fPc = "filter" /\ fIn.fillmode = "stretch"
    /\ fGeo.fillmode = "height"
    /\ fGeo.fit_full_width > F32AllInts
    /\ fGeo.fit_full_width % 2 = 1

\* below F32AllInts / 4 the sizes stay inside the target
LetterSmallWithinTarget ==
    (/\ fPc = "filter" /\ fIn.fillmode \notin {"height", "width"}
     /\ fGeo.fit_full_width < F32AllInts \div 4
     /\ fGeo.fit_full_height < F32AllInts \div 4)
    => /\ fGeo.resize_full_width <= fGeo.fit_full_width
       /\ fGeo.resize_full_height <= fGeo.fit_full_height
       /\ fGeo.xoffset >= 0
       /\ fGeo.yoffset >= 0

\* where every size is small the float sizes are those of exact arithmetic
LetterSmallExact ==
    (/\ fPc = "filter"
     /\ \A n \in {fIn.src.full_width, fIn.src.full_height,
                  fGeo.fit_full_width, fGeo.fit_full_height} :
           n <= LetterMaxSize)
    => LET g == fit_geometry(fIn.src, fGeo.roi, fIn.fillmode)
       IN  /\ fGeo.fillmode = g.fillmode
           /\ fGeo.resize_full_width = g.resize_full_width
           /\ fGeo.resize_full_height = g.resize_full_height
           /\ fGeo.xoffset = g.xoffset
           /\ fGeo.yoffset = g.yoffset

====
